---------------------------- MODULE Spec2Model ----------------------------
(***************************************************************************)
(* Verification model of the lightwave renderer (PhotonPulse).             *)
(*                                                                         *)
(* Part I   the intersection core: Rectangle, Sphere, TriangleMesh,        *)
(*          Instance, Group and the AccelerationStructure (BVH).           *)
(* Part II  the samplers (Independent, Halton).                            *)
(* Part III the tile scheduler: for_each_parallel, BlockSpiral and         *)
(*          SamplingIntegrator::execute.                                   *)
(*                                                                         *)
(* Numbers.  Geometry lives on the integer grid: every coordinate and      *)
(* every distance a model run produces is a whole number, all rays are     *)
(* axis parallel with a unit direction, so the float arithmetic of the     *)
(* source is exact on these inputs.  IEEE-754 infinities and NaN are kept: *)
(* Infinity and -Infinity are sentinels beyond every finite value and NaN  *)
(* is a value for which every ordered comparison is false.  Epsilon (1e-5) *)
(* lies strictly between the grid values 0 and 1.                          *)
(***************************************************************************)
EXTENDS Integers, Sequences, FiniteSets, TLC

(***************************************************************************)
(* Bounds of the model.                                                    *)
(***************************************************************************)
MaxPrims == 3

(***************************************************************************)
(* IEEE-754 values and comparisons.                                        *)
(***************************************************************************)
Infinity == 1000000
NaN == Infinity + Infinity + 1

\* a < b on floats: false as soon as one side is NaN
Lt(a, b) == a # NaN /\ b # NaN /\ a < b

\* x < Epsilon and x > Epsilon for a grid value x (0 < Epsilon < 1)
LtEpsilon(x) == Lt(x, 1)
GtEpsilon(x) == Lt(0, x)

\* std::min(a, b) == (b < a) ? b : a      std::max(a, b) == (a < b) ? b : a
StdMin(a, b) == IF Lt(b, a) THEN b ELSE a
StdMax(a, b) == IF Lt(a, b) THEN b ELSE a

Abs(x) == IF x < 0 THEN -x ELSE x

\* float division n / d of a finite n: x/0 is +-inf, 0/0 is NaN
FDiv(n, d) ==
    IF n = NaN \/ d = NaN THEN NaN
    ELSE IF d = 0 THEN (IF n = 0 THEN NaN ELSE IF n > 0 THEN Infinity ELSE -Infinity)
    ELSE IF Abs(n) = Infinity THEN (IF (n < 0) = (d < 0) THEN Infinity ELSE -Infinity)
    ELSE IF (n < 0) = (d < 0) THEN Abs(n) \div Abs(d) ELSE -(Abs(n) \div Abs(d))

\* float product of a value with a finite positive factor
FMul(a, s) == IF a = NaN \/ Abs(a) = Infinity THEN a ELSE a * s

\* std::sqrt of a non-negative whole number (exact on perfect squares)
Sqrt(n) == CHOOSE r \in 0..n : r * r <= n /\ n < (r + 1) * (r + 1)

(***************************************************************************)
(* Vectors and points: triples <<x, y, z>>.                                *)
(***************************************************************************)
Axes == 1..3
VAdd(a, b) == [i \in Axes |-> a[i] + b[i]]
VSub(a, b) == [i \in Axes |-> a[i] - b[i]]
VScale(t, a) == [i \in Axes |-> t * a[i]]
Dot(a, b) == a[1] * b[1] + a[2] * b[2] + a[3] * b[3]
Cross(a, b) == <<a[2] * b[3] - a[3] * b[2],
                 a[3] * b[1] - a[1] * b[3],
                 a[1] * b[2] - a[2] * b[1]>>
VLength(a) == Sqrt(Dot(a, a))

elementwiseMin(a, b) == [i \in Axes |-> StdMin(a[i], b[i])]
elementwiseMax(a, b) == [i \in Axes |-> StdMax(a[i], b[i])]

\* std::max_element / std::min_element keep the first element unless a later
\* one compares greater / smaller
maxComponent(v) ==
    LET m2 == IF Lt(v[1], v[2]) THEN v[2] ELSE v[1]
    IN  IF Lt(m2, v[3]) THEN v[3] ELSE m2
minComponent(v) ==
    LET m2 == IF Lt(v[2], v[1]) THEN v[2] ELSE v[1]
    IN  IF Lt(v[3], m2) THEN v[3] ELSE m2
maxComponentIndex(v) ==
    LET i2 == IF Lt(v[1], v[2]) THEN 2 ELSE 1
    IN  IF Lt(v[i2], v[3]) THEN 3 ELSE i2

\* Ray::operator()
RayAt(ray, t) == VAdd(ray.origin, VScale(t, ray.direction))

(***************************************************************************)
(* Bounds (TBounds<float, 3>).                                             *)
(***************************************************************************)
BoundsEmpty == [min |-> <<Infinity, Infinity, Infinity>>,
                max |-> <<-Infinity, -Infinity, -Infinity>>]
BoundsExtend(b, o) == [min |-> elementwiseMin(b.min, o.min),
                       max |-> elementwiseMax(b.max, o.max)]

(***************************************************************************)
(* Intersection.  Besides t and position the record keeps, for each        *)
(* surface field, which primitive stored the value it holds (by = 0: the   *)
(* value of the default constructor).                                      *)
(***************************************************************************)
NoWriter == 0
NewIntersection(tMax) ==
    [t |-> tMax, position |-> <<0, 0, 0>>, instance |-> 0,
     tBy |-> NoWriter, positionBy |-> NoWriter, uvBy |-> NoWriter,
     frameBy |-> NoWriter, pdfBy |-> NoWriter, bvhVisits |-> <<>>]

Result(hit, its) == [hit |-> hit, its |-> its]

(***************************************************************************)
(* Rectangle                                                               *)
(***************************************************************************)
RectanglePopulate(surf, position, id) ==
    [surf EXCEPT !.position = position, !.positionBy = id,
                 !.uvBy = id, !.frameBy = id, !.pdfBy = id]

RectangleIntersect(ray, its, id) ==
    IF ray.direction[3] = 0 THEN Result(FALSE, its)
    ELSE LET t == FDiv(-ray.origin[3], ray.direction[3])
             position == RayAt(ray, t)
         IN  IF LtEpsilon(t) \/ Lt(its.t, t) THEN Result(FALSE, its)
             ELSE IF Abs(position[1]) > 1 \/ Abs(position[2]) > 1
                  THEN Result(FALSE, its)
             ELSE Result(TRUE, RectanglePopulate([its EXCEPT !.t = t, !.tBy = id],
                                                 position, id))

RectangleBoundingBox == [min |-> <<-1, -1, 0>>, max |-> <<1, 1, 0>>]
RectangleCentroid == <<0, 0, 0>>

(***************************************************************************)
(* Sphere                                                                  *)
(***************************************************************************)
SpherePopulate(surf, position, id) ==
    [surf EXCEPT !.position = position, !.positionBy = id, !.pdfBy = id]

\* is_quadratic_solution: <<found, t0, t1>>
SphereQuadratic(a, b, c) ==
    LET discriminant == b * b - 4 * a * c
    IN  IF discriminant < 0 THEN <<FALSE, 0, 0>>
        ELSE LET root == Sqrt(discriminant)
                 q  == IF b < 0 THEN FDiv(-(b - root), 2) ELSE FDiv(-(b + root), 2)
                 t0 == FDiv(q, a)
                 t1 == FDiv(c, q)
             IN  IF Lt(t1, t0) THEN <<TRUE, t1, t0>> ELSE <<TRUE, t0, t1>>

SphereIntersect(ray, its, id) ==
    LET a == Dot(ray.direction, ray.direction)
        b == 2 * Dot(ray.origin, ray.direction)
        c == Dot(ray.origin, ray.origin) - 1
        sol == SphereQuadratic(a, b, c)
        miss == Result(FALSE, [its EXCEPT !.t = 0])
    IN  IF ~sol[1] THEN miss
        ELSE LET t0 == IF Lt(sol[2], 0) THEN sol[3] ELSE sol[2]
             IN  IF Lt(sol[2], 0) /\ Lt(t0, 0) THEN miss
                 ELSE IF LtEpsilon(t0) THEN miss
                 ELSE Result(TRUE, SpherePopulate([its EXCEPT !.t = t0, !.tBy = id],
                                                  RayAt(ray, t0), id))

SphereBoundingBox == [min |-> <<-1, -1, -1>>, max |-> <<1, 1, 1>>]
SphereCentroid == <<0, 0, 0>>

(***************************************************************************)
(* TriangleMesh: one triangle <<v0, v1, v2>>                               *)
(***************************************************************************)
MeshPopulate(surf, position, id) ==
    [surf EXCEPT !.position = position, !.positionBy = id, !.frameBy = id]

TriangleIntersect(tri, ray, its, id) ==
    LET edge1 == VSub(tri[2], tri[1])
        edge2 == VSub(tri[3], tri[1])
        rayXedge2 == Cross(ray.direction, edge2)
        det == Dot(edge1, rayXedge2)
        s == VSub(ray.origin, tri[1])
        uNum == Dot(s, rayXedge2)          \* u = uNum / det
        sXedge1 == Cross(s, edge1)
        vNum == Dot(ray.direction, sXedge1)     \* v = vNum / det
        t == FDiv(Dot(edge2, sXedge1), det)
    IN  IF det = 0 THEN Result(FALSE, its)
        ELSE IF uNum * det < 0 \/ uNum * det > det * det THEN Result(FALSE, its)
        ELSE IF vNum * det < 0 \/ (uNum + vNum) * det > det * det
             THEN Result(FALSE, its)
        ELSE IF GtEpsilon(t) /\ Lt(t, its.t)
             THEN Result(TRUE, MeshPopulate([its EXCEPT !.t = t, !.tBy = id],
                                            RayAt(ray, t), id))
        ELSE Result(FALSE, its)

Min3(a, b, c) == StdMin(StdMin(a, b), c)
Max3(a, b, c) == StdMax(StdMax(a, b), c)
TriangleBoundingBox(tri) ==
    [min |-> [i \in Axes |-> Min3(tri[1][i], tri[2][i], tri[3][i])],
     max |-> [i \in Axes |-> Max3(tri[1][i], tri[2][i], tri[3][i])]]
\* three times the centroid (the centroid is the vertex sum divided by 3)
TriangleCentroid3(tri) == [i \in Axes |-> tri[1][i] + tri[2][i] + tri[3][i]]

(***************************************************************************)
(* Primitives of an acceleration structure.  A child of a Group is a       *)
(* Rectangle or a Sphere, bare or wrapped in an Instance, with or without  *)
(* a transform; the transforms of the model are translations.  A primitive *)
(* of a TriangleMesh is a triangle.                                        *)
(*   kind  "rectangle" | "sphere" | "triangle"                             *)
(*   inst  TRUE when the shape is wrapped in an Instance                   *)
(*   tr    <<>> (m_transform is null) or the translation vector            *)
(*   tri   the three vertices of a triangle, <<>> otherwise                *)
(***************************************************************************)
BareShape(kind) == [kind |-> kind, inst |-> FALSE, tr |-> <<>>, tri |-> <<>>]
InstanceOf(kind, tr) == [kind |-> kind, inst |-> TRUE, tr |-> tr, tri |-> <<>>]
Triangle(v0, v1, v2) ==
    [kind |-> "triangle", inst |-> FALSE, tr |-> <<>>, tri |-> <<v0, v1, v2>>]

\* Transform::apply(Point), Transform::inverse(Ray) of a translation
\* the one element of a singleton set; The({ e(x) : x \in {v} }) names the
\* value v as x in e, as a local variable of the source does
The(S) == CHOOSE v \in S : TRUE

TransformApply(tr, point) == VAdd(point, tr)
TransformInverseRay(tr, ray) ==
    [origin |-> VSub(ray.origin, tr), direction |-> ray.direction]

\* the intersect of the shape itself
ShapeIntersect(p, ray, its, id) ==
    CASE p.kind = "rectangle" -> RectangleIntersect(ray, its, id)
      [] p.kind = "sphere"    -> SphereIntersect(ray, its, id)
      [] p.kind = "triangle"  -> TriangleIntersect(p.tri, ray, its, id)

ShapeBoundingBox(p) ==
    CASE p.kind = "rectangle" -> RectangleBoundingBox
      [] p.kind = "sphere"    -> SphereBoundingBox
      [] p.kind = "triangle"  -> TriangleBoundingBox(p.tri)

ShapeCentroid3(p) ==
    CASE p.kind = "rectangle" -> VScale(3, RectangleCentroid)
      [] p.kind = "sphere"    -> VScale(3, SphereCentroid)
      [] p.kind = "triangle"  -> TriangleCentroid3(p.tri)

\* Instance::transformFrame: position and frame are rewritten from the values
\* the record holds, so each keeps the writer it had
InstanceTransformFrame(tr, surf) ==
    [surf EXCEPT !.position = TransformApply(tr, surf.position)]

\* the part of Instance::intersect after the local ray is known
InstanceLocal(p, localRay, local_ray_scale, its, id) ==
    The({ IF r.hit
          THEN Result(TRUE, InstanceTransformFrame(p.tr,
                  [r.its EXCEPT !.instance = id,
                                !.t = FDiv(r.its.t, local_ray_scale)]))
          ELSE Result(FALSE, [r.its EXCEPT !.t = its.t]) :
          r \in {ShapeIntersect(p, localRay,
                     [its EXCEPT !.t = FMul(its.t, local_ray_scale)], id)} })

InstanceIntersect(p, worldRay, its, id) ==
    IF p.tr = <<>>
    THEN The({ IF r.hit THEN Result(TRUE, [r.its EXCEPT !.instance = id])
                        ELSE Result(FALSE, r.its) :
               r \in {ShapeIntersect(p, worldRay, its, id)} })
    ELSE The({ The({ InstanceLocal(p, localRay, local_ray_scale, its, id) :
                     local_ray_scale \in {VLength(localRay.direction)} }) :
               localRay \in {TransformInverseRay(p.tr, worldRay)} })

InstanceBoundingBox(p) ==
    IF p.tr = <<>> THEN ShapeBoundingBox(p)
    ELSE [min |-> TransformApply(p.tr, ShapeBoundingBox(p).min),
          max |-> TransformApply(p.tr, ShapeBoundingBox(p).max)]

InstanceCentroid3(p) ==
    IF p.tr = <<>> THEN ShapeCentroid3(p)
    ELSE VAdd(ShapeCentroid3(p), VScale(3, p.tr))

\* the virtual intersect(primitiveIndex, ...), getBoundingBox(primitiveIndex)
\* and getCentroid(primitiveIndex) of Group and TriangleMesh; primitive
\* indices are those of the source (from 0), the writer id is index + 1
PrimIntersect(prims, primitiveIndex, ray, its) ==
    LET p == prims[primitiveIndex + 1]
    IN  IF p.inst THEN InstanceIntersect(p, ray, its, primitiveIndex + 1)
        ELSE ShapeIntersect(p, ray, its, primitiveIndex + 1)

PrimBoundingBox(prims, primitiveIndex) ==
    LET p == prims[primitiveIndex + 1]
    IN  IF p.inst THEN InstanceBoundingBox(p) ELSE ShapeBoundingBox(p)

PrimCentroid3(prims, primitiveIndex) ==
    LET p == prims[primitiveIndex + 1]
    IN  IF p.inst THEN InstanceCentroid3(p) ELSE ShapeCentroid3(p)

(***************************************************************************)
(* AccelerationStructure: build.  A bvh is [nodes, perm]: m_nodes and      *)
(* m_primitiveIndices; node and primitive indices count from 0 as in the   *)
(* source, so element k of a vector is element k + 1 of the sequence.      *)
(***************************************************************************)
Node(aabb, leftFirst, primitiveCount) ==
    [aabb |-> aabb, leftFirst |-> leftFirst, primitiveCount |-> primitiveCount]
isLeaf(node) == node.primitiveCount # 0

RECURSIVE AABBOfRange(_, _, _, _)
AABBOfRange(prims, perm, first, count) ==
    IF count = 0 THEN BoundsEmpty
    ELSE BoundsExtend(AABBOfRange(prims, perm, first, count - 1),
                      PrimBoundingBox(prims, perm[first + count]))

\* a computeAABB that stops after the first primitive of the range
computeAABBFirst(prims, bvh, n) ==
    LET node == bvh.nodes[n + 1]
    IN  [bvh EXCEPT !.nodes[n + 1].aabb =
             AABBOfRange(prims, bvh.perm, node.leftFirst,
                         IF node.primitiveCount > 0 THEN 1 ELSE 0)]
\* AccelerationStructure::computeAABB
computeAABB(prims, bvh, n) ==
    LET node == bvh.nodes[n + 1]
    IN  [bvh EXCEPT !.nodes[n + 1].aabb =
             AABBOfRange(prims, bvh.perm, node.leftFirst, node.primitiveCount)]

\* a swap that forgets to save the overwritten element
SwapLossy(perm, i, j) == [perm EXCEPT ![i + 1] = perm[j + 1]]

Swap(perm, i, j) == [perm EXCEPT ![i + 1] = perm[j + 1], ![j + 1] = perm[i + 1]]

\* the partition loop of subdivide: [perm, firstRightIndex]
RECURSIVE Partition(_, _, _, _, _, _)
Partition(prims, perm, firstRightIndex, lastLeftIndex, splitAxis, aabb) ==
    IF firstRightIndex > lastLeftIndex
    THEN [perm |-> perm, firstRightIndex |-> firstRightIndex]
    ELSE IF 2 * PrimCentroid3(prims, perm[firstRightIndex + 1])[splitAxis]
              < 3 * (aabb.min[splitAxis] + aabb.max[splitAxis])
         THEN Partition(prims, perm, firstRightIndex + 1, lastLeftIndex,
                        splitAxis, aabb)
         ELSE Partition(prims, Swap(perm, firstRightIndex, lastLeftIndex),
                        firstRightIndex, lastLeftIndex - 1, splitAxis, aabb)

RECURSIVE subdivide(_, _, _)
subdivide(prims, bvh, n) ==
    LET parent == bvh.nodes[n + 1]
    IN  IF parent.primitiveCount <= 2 THEN bvh
        ELSE
        LET splitAxis == maxComponentIndex(VSub(parent.aabb.max, parent.aabb.min))
            firstPrimitive == parent.leftFirst
            part == Partition(prims, bvh.perm, firstPrimitive,
                              parent.leftFirst + parent.primitiveCount - 1,
                              splitAxis, parent.aabb)
            firstRightIndex == part.firstRightIndex
            leftCount == firstRightIndex - firstPrimitive
            rightCount == parent.primitiveCount - leftCount
            leftChildIndex == Len(bvh.nodes)
            rightChildIndex == Len(bvh.nodes) + 1
        IN  IF leftCount = 0 \/ rightCount = 0
            THEN [bvh EXCEPT !.perm = part.perm]
            ELSE
            LET b1 == [nodes |-> [bvh.nodes EXCEPT
                                    ![n + 1].primitiveCount = 0,
                                    ![n + 1].leftFirst = leftChildIndex]
                                 \o <<Node(BoundsEmpty, firstPrimitive, leftCount),
                                      Node(BoundsEmpty, firstRightIndex, rightCount)>>,
                       perm |-> part.perm]
                b2 == subdivide(prims, computeAABB(prims, b1, leftChildIndex),
                                leftChildIndex)
            IN  subdivide(prims, computeAABB(prims, b2, rightChildIndex),
                          rightChildIndex)

buildAccelerationStructure(prims) ==
    LET b0 == [nodes |-> <<Node(BoundsEmpty, 0, Len(prims))>>,
               perm |-> [i \in 1..Len(prims) |-> i - 1]]
    IN  subdivide(prims, computeAABB(prims, b0, 0), 0)

(***************************************************************************)
(* AccelerationStructure: traversal.                                       *)
(***************************************************************************)
intersectAABB(bounds, ray) ==
    LET t1 == [i \in Axes |-> FDiv(bounds.min[i] - ray.origin[i], ray.direction[i])]
        t2 == [i \in Axes |-> FDiv(bounds.max[i] - ray.origin[i], ray.direction[i])]
        tNear == maxComponent(elementwiseMin(t1, t2))
        tFar == minComponent(elementwiseMax(t1, t2))
    IN  IF Lt(tFar, tNear) THEN Infinity
        ELSE IF LtEpsilon(tFar) THEN Infinity
        ELSE tNear

\* the loop over the primitives of a leaf: wasIntersected and its after the
\* first count primitives of the node were tested
RECURSIVE LeafLoop(_, _, _, _, _, _)
LeafLoop(prims, bvh, node, count, ray, its) ==
    IF count = 0 THEN Result(FALSE, its)
    ELSE The({ The({ Result(prev.hit \/ r.hit, r.its) :
                     r \in {PrimIntersect(prims, bvh.perm[node.leftFirst + count],
                                          ray, prev.its)} }) :
               prev \in {LeafLoop(prims, bvh, node, count - 1, ray, its)} })

RECURSIVE intersectNode(_, _, _, _, _)

\* "if (childT < its.t) wasIntersected |= intersectNode(child, ...)": r holds
\* wasIntersected and its so far
VisitChild(prims, bvh, child, childT, ray, r) ==
    IF Lt(childT, r.its.t)
    THEN The({ Result(r.hit \/ x.hit, x.its) :
               x \in {intersectNode(prims, bvh, child, ray, r.its)} })
    ELSE r

\* an internal-node branch that always takes the left child first
VisitChildrenLeftFirst(prims, bvh, left, leftT, right, rightT, ray, its) ==
    The({ VisitChild(prims, bvh, right, rightT, ray, r) :
          r \in {VisitChild(prims, bvh, left, leftT, ray, Result(FALSE, its))} })
\* the internal-node branch: the child whose box is entered first is visited
\* first
VisitChildren(prims, bvh, left, leftT, right, rightT, ray, its) ==
    IF Lt(leftT, rightT)
    THEN The({ VisitChild(prims, bvh, right, rightT, ray, r) :
               r \in {VisitChild(prims, bvh, left, leftT, ray, Result(FALSE, its))} })
    ELSE The({ VisitChild(prims, bvh, left, leftT, ray, r) :
               r \in {VisitChild(prims, bvh, right, rightT, ray, Result(FALSE, its))} })

\* "its.stats.bvhCounter++": the count is kept as the list of the nodes
\* counted, each with the value of its.t on entry
CountNode(its, n) ==
    [its EXCEPT !.bvhVisits = Append(@, [node |-> n, t |-> its.t])]

intersectNode(prims, bvh, n, ray, its) ==
    IF isLeaf(bvh.nodes[n + 1])
    THEN LeafLoop(prims, bvh, bvh.nodes[n + 1], bvh.nodes[n + 1].primitiveCount, ray,
                  CountNode(its, n))
    ELSE The({ VisitChildren(prims, bvh, left, leftT, left + 1, rightT, ray,
                             CountNode(its, n)) :
               left \in {bvh.nodes[n + 1].leftFirst},
               leftT \in {intersectAABB(bvh.nodes[bvh.nodes[n + 1].leftFirst + 1].aabb, ray)},
               rightT \in {intersectAABB(bvh.nodes[bvh.nodes[n + 1].leftFirst + 2].aabb, ray)} })

\* AccelerationStructure::intersect
AccelIntersect(prims, bvh, ray, its) ==
    IF Len(bvh.perm) = 0 THEN Result(FALSE, its)
    ELSE IF Lt(intersectAABB(bvh.nodes[1].aabb, ray), its.t)
         THEN intersectNode(prims, bvh, 0, ray, its)
         ELSE Result(FALSE, its)

(***************************************************************************)
(* State of Part I: one acceleration structure (a Group or a TriangleMesh) *)
(* and one Intersection that a caller passes through intersect calls.      *)
(***************************************************************************)
VARIABLES
    accelKind,            \* "none" before the constructor ran, "group", "mesh"
    m_children,           \* Group::m_children / TriangleMesh::m_triangles
    m_nodes,              \* AccelerationStructure::m_nodes
    m_primitiveIndices,   \* AccelerationStructure::m_primitiveIndices
    ray,                  \* the ray of the current query
    its,                  \* the caller's Intersection
    call                  \* the last intersect call: its target, the
                          \* Intersection it was given and what it returned

shapeVars == <<accelKind, m_children, m_nodes, m_primitiveIndices, ray, its, call>>

\* State of Part II: two samplers built from the same Properties, and what a
\* caller has done with each since its last seed call
VARIABLES
    rng,                  \* the two Sampler objects
    seeded,               \* the arguments of the last seed call on each
    drawn                 \* the values next() returned since that call

samplerVars == <<rng, seeded, drawn>>

\* State of Part III: one SamplingIntegrator::execute, the thread pool of
\* for_each_parallel and the image
VARIABLES
    mainPc,               \* "idle", "pool" (inside for_each_parallel), "returned"
    m_sampler,            \* SamplingIntegrator::m_sampler
    resolution,           \* the camera's resolution
    m_image,              \* the pixels of Image::m_data
    numThreads,           \* what std::thread::hardware_concurrency() returned
    m_threads,            \* the number of threads created so far
    joined,               \* the number of threads joined so far
    m_lock,               \* 0, or the thread that holds the mutex
    first,                \* the shared BlockSpiral iterator
    threadPc,             \* per thread: "none", "lock", "locked", "f", "pixels", "done"
    obj,                  \* per thread: the block it took
    pixelIt,              \* per thread: the pixel iterator over its block
    sampler,              \* per thread: the clone made for the block
    taken,                \* history: the blocks taken, with the taking thread
    finished,             \* history: the number of calls of f that returned
    writes                \* history: which thread stored which pixel

poolVars == <<mainPc, m_sampler, resolution, m_image, numThreads, m_threads, joined,
              m_lock, first, threadPc, obj, pixelIt, sampler, taken, finished, writes>>

\* State of Part IV: the Sampler objects of one render as objects on the
\* heap, reached through ref<Sampler> handles
VARIABLES
    heap,                 \* address -> the Sampler object stored there
    ref,                  \* handle -> address (handle 0 is m_sampler, handle
                          \* t > 0 the local "sampler" of worker t)
    own,                  \* history: handle -> the object as the calls made
                          \* through this handle alone leave it
    users                 \* history: address -> the workers that seeded or
                          \* drew from the object

cloneVars == <<heap, ref, own, users>>

\* State of Part V: one scene and what PathtracerIntegrator::Li and
\* DirectIntegrator::Li return for its primary ray
VARIABLES
    liScene,              \* what the scene answers along the path
    depth,                \* PathtracerIntegrator::depth
    ptResult,             \* the return of PathtracerIntegrator::Li, with
                          \* the calls it made
    diResult              \* the return of DirectIntegrator::Li

liVars == <<liScene, depth, ptResult, diResult>>

\* State of Part VI: one Instance and the setLight calls made on it
VARIABLES
    m_light,              \* Instance::m_light
    m_visible,            \* Instance::m_visible
    setLightCalls         \* the setLight calls so far: argument, thrown or not

instanceVars == <<m_light, m_visible, setLightCalls>>

\* State of Part VII: the shading frame of one Instance hit
VARIABLES
    frInstance,           \* the Instance: wrapped shape and transform
    frIts                 \* the frame of the Intersection and what the last
                          \* intersect returned

frameVars == <<frInstance, frIts>>

\* State of Part VIII: one Transform under construction
VARIABLES
    m_transform,          \* Transform::m_transform
    m_inverse,            \* Transform::m_inverse
    trOps,                \* the number of operations applied
    trThrown              \* an operation has thrown

transformVars == <<m_transform, m_inverse, trOps, trThrown>>

\* State of Part IX: one query of an Instance with a transform
VARIABLES
    scInstance,           \* the Instance: its transform and its triangle
    worldRay,             \* the ray of the query
    scIts,                \* the Intersection of the query
    scCall                \* what the last intersect handed to the shape and
                          \* got back

scaleVars == <<scInstance, worldRay, scIts, scCall>>

\* State of Part X: one Streaming object, its updater thread and the socket
VARIABLES
    s_socket,             \* "unset" before the first Stream, "open", or "none"
    streamPc,             \* where the thread that owns the Streaming is
    renderBlocks,         \* updateBlock calls made by the render
    updaterPc,            \* where the thread of UpdateThread is
    updaterBlocks,        \* blocks left in the update() of the updater
    stop,                 \* UpdateThread::stop
    mutex,                \* who holds UpdateThread::mutex
    synced,               \* the updater took mutex after stop was set
    updatesAfterStop,     \* update() calls begun after stop was set
    lost,                 \* the connection failed or a send reported an error
    sentAfterLost,        \* bytes were sent after that
    streamings            \* Streaming objects constructed so far

streamVars == <<s_socket, streamPc, renderBlocks, updaterPc, updaterBlocks, stop,
                mutex, synced, updatesAfterStop, lost, sentAfterLost, streamings>>

\* Part XI: the ray of the last Sphere::intersect call and what it returned
VARIABLES
    sphereRay, sphereResult
sphereVars == <<sphereRay, sphereResult>>

\* Part XII: one loop over a BlockSpiral from begin() to end()
VARIABLES
    spiralQueue,          \* the BlockSpiral: imageSize and blockSize
    spiralIt,             \* the iterator of the loop
    yielded               \* history: the iterators dereferenced, with their blocks
spiralVars == <<spiralQueue, spiralIt, yielded>>

\* Part XIII: concurrent calls of atomicAdd on one Color
VARIABLES
    atomDst,              \* the Color dst: channel -> float
    atomInitial,          \* history: dst before the first call
    adder,                \* per thread: its call of atomicAdd and where it stands
    applied,              \* history: per channel, the exchanges that succeeded
    retries               \* history: the number of exchanges that failed
atomVars == <<atomDst, atomInitial, adder, applied, retries>>

\* the state of the parts after Part III
laterVars == <<cloneVars, liVars, instanceVars, frameVars, transformVars, scaleVars, streamVars, sphereVars, spiralVars, atomVars>>
besidesClone == <<shapeVars, samplerVars, poolVars, liVars, instanceVars, frameVars, transformVars, scaleVars, streamVars, sphereVars, spiralVars, atomVars>>
besidesLi == <<shapeVars, samplerVars, poolVars, cloneVars, instanceVars, frameVars, transformVars, scaleVars, streamVars, sphereVars, spiralVars, atomVars>>
besidesInstance == <<shapeVars, samplerVars, poolVars, cloneVars, liVars, frameVars, transformVars, scaleVars, streamVars, sphereVars, spiralVars, atomVars>>
besidesFrame == <<shapeVars, samplerVars, poolVars, cloneVars, liVars, instanceVars, transformVars, scaleVars, streamVars, sphereVars, spiralVars, atomVars>>
besidesTransform == <<shapeVars, samplerVars, poolVars, cloneVars, liVars, instanceVars, frameVars, scaleVars, streamVars, sphereVars, spiralVars, atomVars>>
besidesScale == <<shapeVars, samplerVars, poolVars, cloneVars, liVars, instanceVars, frameVars, transformVars, streamVars, sphereVars, spiralVars, atomVars>>
besidesStream == <<shapeVars, samplerVars, poolVars, cloneVars, liVars, instanceVars, frameVars, transformVars, scaleVars, sphereVars, spiralVars, atomVars>>
besidesSphere == <<shapeVars, samplerVars, poolVars, cloneVars, liVars, instanceVars, frameVars, transformVars, scaleVars, streamVars, spiralVars, atomVars>>
besidesSpiral == <<shapeVars, samplerVars, poolVars, cloneVars, liVars, instanceVars, frameVars, transformVars, scaleVars, streamVars, sphereVars, atomVars>>
besidesAtom == <<shapeVars, samplerVars, poolVars, cloneVars, liVars, instanceVars, frameVars, transformVars, scaleVars, streamVars, sphereVars, spiralVars>>

vars == <<shapeVars, samplerVars, poolVars, laterVars>>

bvh == [nodes |-> m_nodes, perm |-> m_primitiveIndices]

\* the shapes a scene file puts into a Group, and the triangles of a mesh
GroupCatalogue ==
    { BareShape("rectangle"), BareShape("sphere"), InstanceOf("sphere", <<>>),
      InstanceOf("rectangle", <<0, 0, 2>>), InstanceOf("rectangle", <<3, 0, 1>>),
      InstanceOf("rectangle", <<4, 0, 0>>), InstanceOf("rectangle", <<2, 0, 8>>),
      InstanceOf("rectangle", <<2, 0, -8>>) }
MeshCatalogue ==
    { Triangle(<<0, 0, 0>>, <<2, 0, 0>>, <<0, 2, 0>>),
      Triangle(<<-1, -1, 2>>, <<3, -1, 2>>, <<-1, 3, 2>>),
      Triangle(<<2, -1, 1>>, <<5, -1, 1>>, <<2, 2, 1>>) }

SeqsUpTo(S, n) == UNION { [1..k -> S] : k \in 0..n }

\* the rays and the bounds its.t a caller starts a query with
Rays ==
    { [origin |-> <<x, 0, 4>>, direction |-> <<0, 0, -1>>] : x \in {0, 1, 3} }
    \cup { [origin |-> <<x, 0, -3>>, direction |-> <<0, 0, 1>>] : x \in {0, 1} }
    \cup { [origin |-> <<-5, 0, 0>>, direction |-> <<1, 0, 0>>],
           [origin |-> <<2, 0, -3>>, direction |-> <<0, 0, 1>>],
           [origin |-> <<2, 0, 4>>, direction |-> <<0, 0, -1>>] }
TMaxValues == {Infinity, 2, 3}

NoRay == [origin |-> <<0, 0, 0>>, direction |-> <<0, 0, 0>>]
NoCall == [target |-> "none", index |-> 0, before |-> NewIntersection(Infinity),
           hit |-> FALSE, visits |-> <<>>]

ShapeInit ==
    /\ accelKind = "none"
    /\ m_children = <<>>
    /\ m_nodes = <<>>
    /\ m_primitiveIndices = <<>>
    /\ ray = NoRay
    /\ its = NewIntersection(Infinity)
    /\ call = NoCall

\* Group::Group / TriangleMesh::TriangleMesh: store the children, build the BVH
Construct(kind, prims) ==
    /\ accelKind = "none"
    /\ accelKind' = kind
    /\ m_children' = prims
    /\ LET b == buildAccelerationStructure(prims)
       IN  m_nodes' = b.nodes /\ m_primitiveIndices' = b.perm
    /\ UNCHANGED <<ray, its, call, samplerVars, poolVars, laterVars>>

\* a caller creates a ray and a fresh Intersection(wo, tMax)
NewQuery(r, tMax) ==
    /\ accelKind # "none"
    /\ ray' = r
    /\ its' = NewIntersection(tMax)
    /\ call' = NoCall
    /\ UNCHANGED <<accelKind, m_children, m_nodes, m_primitiveIndices, samplerVars, poolVars, laterVars>>

\* AccelerationStructure::intersect(ray, its, rng) on the structure; the
\* nodes counted in its.stats during the call are kept with the call
IntersectAccel ==
    /\ ray # NoRay
    /\ LET r == AccelIntersect(m_children, bvh, ray, its)
       IN  /\ its' = [r.its EXCEPT !.bvhVisits = <<>>]
           /\ call' = [target |-> "accel", index |-> 0, before |-> its, hit |-> r.hit,
                       visits |-> r.its.bvhVisits]
    /\ UNCHANGED <<accelKind, m_children, m_nodes, m_primitiveIndices, ray,
                   samplerVars, poolVars, laterVars>>

\* Shape::intersect(ray, its, rng) called on child i itself
IntersectChild(i) ==
    /\ ray # NoRay
    /\ i \in 0..(Len(m_children) - 1)
    /\ LET r == PrimIntersect(m_children, i, ray, its)
       IN  /\ its' = r.its
           /\ call' = [target |-> "child", index |-> i, before |-> its, hit |-> r.hit,
                       visits |-> <<>>]
    /\ UNCHANGED <<accelKind, m_children, m_nodes, m_primitiveIndices, ray,
                   samplerVars, poolVars, laterVars>>

ShapeNext ==
    \/ \E prims \in SeqsUpTo(GroupCatalogue, MaxPrims) : Construct("group", prims)
    \/ \E prims \in SeqsUpTo(MeshCatalogue, MaxPrims) : Construct("mesh", prims)
    \/ \E r \in Rays, tMax \in TMaxValues : NewQuery(r, tMax)
    \/ IntersectAccel
    \/ \E i \in 0..(MaxPrims - 1) : IntersectChild(i)


(***************************************************************************)
(* Claims about the intersection core.                                     *)
(***************************************************************************)
\* a primitive whose own intersect accepts only hits with Epsilon <= t <= its.t
\* and leaves its untouched on a miss (Rectangle, triangle, Instance of them)
WellBehaved(p) == p.kind # "sphere"
AllWellBehaved == \A k \in 1..Len(m_children) : WellBehaved(m_children[k])

\* the hit distance >= Epsilon of primitive i on the current ray, Infinity when
\* the ray misses it: what its own intersect reports to a fresh Intersection
PrimHitT(i) ==
    LET r == PrimIntersect(m_children, i, ray, NewIntersection(Infinity))
    IN  IF r.hit THEN r.its.t ELSE Infinity

RECURSIVE MinHitT(_, _)
MinHitT(n, bound) ==
    IF n = 0 THEN bound ELSE StdMin(MinHitT(n - 1, bound), PrimHitT(n - 1))

\* testing every primitive in sequence, without a BVH
RECURSIVE BruteForce(_, _)
BruteForce(n, its0) ==
    IF n = 0 THEN its0
    ELSE PrimIntersect(m_children, n - 1, ray, BruteForce(n - 1, its0)).its

\* C1: after intersect on an acceleration structure of well-behaved
\* primitives, its.t is the minimum of the incoming its.t and of every
\* primitive's hit distance, and equals the result of testing every primitive
\* in sequence.
C1_ClosestHit ==
    (call.target = "accel" /\ AllWellBehaved)
        => /\ its.t = MinHitT(Len(m_children), call.before.t)
           /\ its.t = BruteForce(Len(m_children), call.before).t

\* C2: intersect on an acceleration structure returns true iff some primitive
\* has a hit distance in the closed interval [Epsilon, incoming its.t].
C2_HitIffInRange ==
    (call.target = "accel" /\ AllWellBehaved)
        => (call.hit <=> \E i \in 0..(Len(m_children) - 1) :
                            /\ PrimHitT(i) # Infinity
                            /\ PrimHitT(i) <= call.before.t)

\* C3: an intersect call that returns false leaves its.t as it was.
C3_MissKeepsT ==
    (call.target # "none" /\ ~call.hit) => its.t = call.before.t

\* C4: no intersect call leaves its.t greater than it was given.
C4_NeverFarther ==
    (call.target # "none") => its.t <= call.before.t

\* C5: when intersect returns true, position, uv, frame, pdf and t were all
\* stored by the same primitive, the one that produced the final its.t.
C5_OneWriter ==
    (call.target # "none" /\ call.hit)
        => /\ its.tBy # NoWriter
           /\ its.positionBy = its.tBy
           /\ its.uvBy = its.tBy
           /\ its.frameBy = its.tBy
           /\ its.pdfBy = its.tBy

(***************************************************************************)
(* Claims about the BVH build.                                             *)
(***************************************************************************)
NumPrims == Len(m_children)
NodeIds == 0..(Len(m_nodes) - 1)
NodeAt(n) == m_nodes[n + 1]
LeafRange(n) == NodeAt(n).leftFirst .. (NodeAt(n).leftFirst + NodeAt(n).primitiveCount - 1)
Leaves == { n \in NodeIds : NodeAt(n).primitiveCount > 0 }

IsPermutation ==
    /\ Len(m_primitiveIndices) = NumPrims
    /\ { m_primitiveIndices[k] : k \in 1..NumPrims } = 0..(NumPrims - 1)

\* a leaf with a range inside the permutation array, or an internal node with
\* both children in m_nodes
ValidNode(n) ==
    \/ /\ NodeAt(n).primitiveCount > 0
       /\ LeafRange(n) \subseteq 0..(NumPrims - 1)
    \/ /\ NodeAt(n).primitiveCount = 0
       /\ NodeAt(n).leftFirst \in NodeIds \ {n}
       /\ NodeAt(n).leftFirst + 1 \in NodeIds

LeavesPartition ==
    /\ \A a, b \in Leaves : a # b => LeafRange(a) \cap LeafRange(b) = {}
    /\ UNION { LeafRange(n) : n \in Leaves } = 0..(NumPrims - 1)

\* C6 as stated, for every N >= 0: every node is a leaf or an internal node
\* with two existing children, and the leaves partition the permutation array.
C6_ValidTreeAnyN ==
    accelKind # "none"
        => /\ IsPermutation
           /\ \A n \in NodeIds : ValidNode(n)
           /\ LeavesPartition

\* C6 amended: the statement holds for N >= 1; for N = 0 m_nodes holds the
\* root alone, with primitiveCount = 0 and no children.
C6_ValidTree ==
    accelKind # "none"
        => /\ IsPermutation
           /\ NumPrims >= 1 => (\A n \in NodeIds : ValidNode(n)) /\ LeavesPartition
           /\ NumPrims = 0 => m_nodes = <<Node(BoundsEmpty, 0, 0)>>

\* a built tree with an internal node whose partition reordered the primitives
C6_Witness ==
    /\ accelKind # "none"
    /\ Len(m_nodes) >= 3
    /\ m_primitiveIndices # [i \in 1..NumPrims |-> i - 1]

(***************************************************************************)
(* Claims about the traversal order and the node boxes.                    *)
(***************************************************************************)
\* the near-distance intersectNode computes for the box of node n
NearOf(n) == intersectAABB(NodeAt(n).aabb, ray)
VisitedNodes == { call.visits[i].node : i \in 1..Len(call.visits) }
VisitOf(n) == CHOOSE i \in 1..Len(call.visits) : call.visits[i].node = n
InternalNodes == { n \in NodeIds : NumPrims > 0 /\ NodeAt(n).primitiveCount = 0 }
ChildrenOf(n) == {NodeAt(n).leftFirst, NodeAt(n).leftFirst + 1}

\* no point origin + t * direction with t >= 0 lies in the closed box: on some
\* axis the ray runs beside the slab or away from it
RayMissesBox(box, r) ==
    \E i \in Axes :
       \/ r.direction[i] = 0 /\ (r.origin[i] < box.min[i] \/ r.origin[i] > box.max[i])
       \/ r.direction[i] > 0 /\ r.origin[i] > box.max[i]
       \/ r.direction[i] < 0 /\ r.origin[i] < box.min[i]

\* C28: at an internal node intersectNode visits the child with the smaller
\* near-distance first, visits a child only if its near-distance is strictly
\* less than its.t at the moment of the visit, and never visits a child
\* whose box the ray misses.
C28_NearerChildFirst ==
    call.target = "accel" =>
       /\ \A i \in 1..Len(call.visits) : \A j \in 1..Len(call.visits) :
             call.visits[i].node = call.visits[j].node => i = j
       /\ \A p \in InternalNodes \cap VisitedNodes :
             /\ \A c \in ChildrenOf(p) \cap VisitedNodes :
                   /\ VisitOf(p) < VisitOf(c)
                   /\ Lt(NearOf(c), call.visits[VisitOf(c)].t)
                   /\ NearOf(c) # Infinity
                   /\ ~RayMissesBox(NodeAt(c).aabb, ray)
             /\ \A c, d \in ChildrenOf(p) \cap VisitedNodes :
                   Lt(NearOf(c), NearOf(d)) => VisitOf(c) < VisitOf(d)
       /\ \A n \in VisitedNodes \ {0} : \E p \in InternalNodes \cap VisitedNodes :
             n \in ChildrenOf(p)

\* both boxes of the children are entered before the incoming its.t, the
\* nearer child is visited and reports a hit, and that hit prunes the
\* farther child
C28_Witness ==
    /\ call.target = "accel"
    /\ call.hit
    /\ 0 \in InternalNodes
    /\ \A c \in ChildrenOf(0) : Lt(NearOf(c), call.before.t)
    /\ \E c, d \in ChildrenOf(0) :
          /\ Lt(NearOf(c), NearOf(d))
          /\ c \in VisitedNodes
          /\ d \notin VisitedNodes

\* the primitives in the index range of node n: those of its range of the
\* permutation array for a leaf, those of its two children otherwise
RECURSIVE PrimsOf(_)
PrimsOf(n) ==
    IF NumPrims = 0 THEN {}
    ELSE IF NodeAt(n).primitiveCount > 0
    THEN { m_primitiveIndices[k + 1] : k \in LeafRange(n) }
    ELSE PrimsOf(NodeAt(n).leftFirst) \cup PrimsOf(NodeAt(n).leftFirst + 1)

SmallestIn(S) == CHOOSE x \in S : \A y \in S : x <= y
LargestIn(S) == CHOOSE x \in S : \A y \in S : x >= y
\* the smallest box around the bounding boxes of a set of primitives
UnionBox(P) ==
    IF P = {} THEN BoundsEmpty
    ELSE [min |-> [i \in Axes |->
                     SmallestIn({ PrimBoundingBox(m_children, p).min[i] : p \in P })],
          max |-> [i \in Axes |->
                     LargestIn({ PrimBoundingBox(m_children, p).max[i] : p \in P })]]
BoxInside(a, b) ==
    \A i \in Axes : b.min[i] <= a.min[i] /\ a.max[i] <= b.max[i]

\* C29: after the build the box of every node, leaf or internal, is the
\* union of the bounding boxes of exactly the primitives in the node's range
\* of the permutation array, so the box of a child lies inside the box of
\* its parent.
C29_NodeBoxesAreUnions ==
    accelKind # "none" =>
       /\ \A n \in NodeIds : NodeAt(n).aabb = UnionBox(PrimsOf(n))
       /\ \A p \in InternalNodes : \A c \in ChildrenOf(p) :
             /\ BoxInside(NodeAt(c).aabb, NodeAt(p).aabb)
             /\ \A q \in PrimsOf(c) :
                   BoxInside(PrimBoundingBox(m_children, q), NodeAt(p).aabb)

\* a tree whose root was split after its box was computed: the partition
\* reordered the primitives and a child has a smaller box than the root
C29_Witness ==
    /\ accelKind # "none"
    /\ 0 \in InternalNodes
    /\ m_primitiveIndices # [i \in 1..NumPrims |-> i - 1]
    /\ \E c \in ChildrenOf(0) : NodeAt(c).aabb # NodeAt(0).aabb

(***************************************************************************)
(* Part II: the samplers.                                                  *)
(*                                                                         *)
(* A float in [0, 1] is a whole number of steps of 1 / FloatUnit.          *)
(***************************************************************************)
FloatUnit == 3600
MaxSampleIndex == 1
MaxDraws == 3

\* pcg32.h, at a width of PcgBits bits: an LCG over state and inc whose
\* output is taken from the state before the step
PcgBits == 8
PcgMod == 2 ^ PcgBits
PcgOutRange == 2 ^ (PcgBits \div 2)
PCG32_MULT == 45
PCG32_DEFAULT_STATE == 155
PCG32_DEFAULT_STREAM == 219

Pcg32 == [state |-> PCG32_DEFAULT_STATE, inc |-> PCG32_DEFAULT_STREAM]
PcgStep(g) == [g EXCEPT !.state = (g.state * PCG32_MULT + g.inc) % PcgMod]
PcgNextUInt(g) == [value |-> g.state \div PcgOutRange, pcg |-> PcgStep(g)]
PcgNextFloat(g) ==
    [value |-> (g.state \div PcgOutRange) * (FloatUnit \div PcgOutRange),
     pcg |-> PcgStep(g)]
PcgSeed(initstate, initseq) ==
    The({ PcgStep([g EXCEPT !.state = (g.state + initstate) % PcgMod]) :
          g \in {PcgStep([state |-> 0, inc |-> (2 * initseq + 1) % PcgMod])} })

\* prime.h
Primes == <<2, 3, 5, 7>>

\* "(uint64_t(pixel.x()) << 32) ^ pixel.y()" at the reduced width; for
\* 0 <= y < 2^(PcgBits / 2) the xor is a sum
PixelKey(pixel) == (pixel[1] * PcgOutRange + pixel[2]) % PcgMod

\* the values a member the constructor does not set may hold
IndeterminateFloat == {0, 1800}
IndeterminateIndex == {0, 3}

\* Independent::Independent and Halton::Halton.  An Independent has no mask,
\* haltonIndex or dimension: the record keeps them at 0.
NewIndependent(seed, count) ==
    [kind |-> "independent", m_samplesPerPixel |-> count, m_seed |-> seed,
     m_pcg |-> Pcg32, mask |-> 0, haltonIndex |-> 0, dimension |-> 0]
NewHalton(count, garbageMask, garbageIndex) ==
    [kind |-> "halton", m_samplesPerPixel |-> count, m_seed |-> 0,
     m_pcg |-> Pcg32, mask |-> garbageMask, haltonIndex |-> garbageIndex,
     dimension |-> 0]

\* seed(int sampleIndex)
IndependentSeedIndex(s, sampleIndex) ==
    [s EXCEPT !.m_pcg = PcgSeed(s.m_seed, sampleIndex)]
HaltonSeedIndex(s, sampleIndex) ==
    [s EXCEPT !.haltonIndex = sampleIndex, !.dimension = 0]
SeedIndex(s, sampleIndex) ==
    IF s.kind = "halton" THEN HaltonSeedIndex(s, sampleIndex)
    ELSE IndependentSeedIndex(s, sampleIndex)

\* seed(const Point2i &pixel, int sampleIndex)
IndependentSeedPixel(s, pixel, sampleIndex) ==
    [s EXCEPT !.m_pcg =
        PcgSeed(PcgNextUInt(PcgSeed(s.m_seed, PixelKey(pixel))).value, sampleIndex)]
\* a Halton::seed(pixel, sampleIndex) that keeps the mask of the seed before
HaltonSeedPixelStale(s, pixel, sampleIndex) ==
    The({ [s EXCEPT !.m_pcg = m.pcg,
                    !.haltonIndex = sampleIndex, !.dimension = 0] :
          m \in {PcgNextFloat(PcgSeed(1337, PixelKey(pixel)))} })
\* Halton::seed(pixel, sampleIndex)
HaltonSeedPixel(s, pixel, sampleIndex) ==
    The({ [s EXCEPT !.m_pcg = m.pcg, !.mask = m.value,
                    !.haltonIndex = sampleIndex, !.dimension = 0] :
          m \in {PcgNextFloat(PcgSeed(1337, PixelKey(pixel)))} })
SeedPixel(s, pixel, sampleIndex) ==
    IF s.kind = "halton" THEN HaltonSeedPixel(s, pixel, sampleIndex)
    ELSE IndependentSeedPixel(s, pixel, sampleIndex)

\* the while loop of Halton::radicalInverse
RECURSIVE RadicalLoop(_, _, _)
RadicalLoop(i, f, base) ==
    IF i > 0 THEN f * (i % base) + RadicalLoop(i \div base, f \div base, base)
    ELSE 0

radicalInverse(s) ==
    The({ [value |-> IF maskedNumber >= FloatUnit THEN maskedNumber - FloatUnit
                     ELSE maskedNumber,
           sampler |-> [s EXCEPT !.dimension = s.dimension + 1]] :
          maskedNumber \in
              {RadicalLoop(s.haltonIndex, FloatUnit \div Primes[s.dimension + 1],
                           Primes[s.dimension + 1]) + s.mask} })

\* next(): the value and the sampler afterwards
SamplerNext(s) ==
    IF s.kind = "halton" THEN radicalInverse(s)
    ELSE The({ [value |-> r.value, sampler |-> [s EXCEPT !.m_pcg = r.pcg]] :
               r \in {PcgNextFloat(s.m_pcg)} })

\* next2D(): { next(), next() }, the first value drawn first
SamplerNext2D(s) ==
    The({ The({ [value |-> <<a.value, b.value>>, sampler |-> b.sampler] :
                b \in {SamplerNext(a.sampler)} }) :
          a \in {SamplerNext(s)} })

\* clone(): a copy of the object
Clone(s) == s

SamplerIds == 1..2
NoSampler == [kind |-> "none"]
NoSeed == <<>>
SeedPixels == { <<0, 0>>, <<1, 0>>, <<0, 1>> }
SampleIndices == 0..MaxSampleIndex
Seeds == {1337}

SamplerInit ==
    /\ rng = [id \in SamplerIds |-> NoSampler]
    /\ seeded = [id \in SamplerIds |-> NoSeed]
    /\ drawn = [id \in SamplerIds |-> <<>>]

\* the scene loader builds two samplers of one kind from the same Properties
NewSamplers(a, b) ==
    /\ rng[1] = NoSampler
    /\ a.kind = b.kind /\ a.m_seed = b.m_seed
    /\ a.m_samplesPerPixel = b.m_samplesPerPixel
    /\ rng' = [id \in SamplerIds |-> IF id = 1 THEN a ELSE b]
    /\ UNCHANGED <<seeded, drawn, shapeVars, poolVars, laterVars>>

CallSeedIndex(id, sampleIndex) ==
    /\ rng[id] # NoSampler
    /\ rng' = [rng EXCEPT ![id] = SeedIndex(rng[id], sampleIndex)]
    /\ seeded' = [seeded EXCEPT ![id] = <<sampleIndex>>]
    /\ drawn' = [drawn EXCEPT ![id] = <<>>]
    /\ UNCHANGED <<shapeVars, poolVars, laterVars>>

CallSeedPixel(id, pixel, sampleIndex) ==
    /\ rng[id] # NoSampler
    /\ rng' = [rng EXCEPT ![id] = SeedPixel(rng[id], pixel, sampleIndex)]
    /\ seeded' = [seeded EXCEPT ![id] = <<pixel, sampleIndex>>]
    /\ drawn' = [drawn EXCEPT ![id] = <<>>]
    /\ UNCHANGED <<shapeVars, poolVars, laterVars>>

CallNext(id) ==
    /\ rng[id] # NoSampler
    /\ Len(drawn[id]) < MaxDraws
    /\ rng[id].dimension < Len(Primes)
    /\ LET r == SamplerNext(rng[id])
       IN  /\ rng' = [rng EXCEPT ![id] = r.sampler]
           /\ drawn' = [drawn EXCEPT ![id] = Append(drawn[id], r.value)]
    /\ UNCHANGED <<seeded, shapeVars, poolVars, laterVars>>

SamplerCatalogue ==
    { NewIndependent(seed, 1) : seed \in Seeds }
    \cup { NewHalton(1, m, i) : m \in IndeterminateFloat, i \in IndeterminateIndex }

SamplersStep ==
    \/ \E a, b \in SamplerCatalogue : NewSamplers(a, b)
    \/ \E id \in SamplerIds, i \in SampleIndices : CallSeedIndex(id, i)
    \/ \E id \in SamplerIds, p \in SeedPixels, i \in SampleIndices :
          CallSeedPixel(id, p, i)
    \/ \E id \in SamplerIds : CallNext(id)

\* C10: two samplers of the same configuration that were last seeded with
\* the same arguments (either overload) return the same values from next(),
\* whatever was called on each before that seed
C10_SeedDetermines ==
    \A a, b \in SamplerIds :
        (rng[a] # NoSampler /\ seeded[a] # NoSeed /\ seeded[a] = seeded[b])
        => \A k \in 1..Len(drawn[a]) :
              k <= Len(drawn[b]) => drawn[a][k] = drawn[b][k]

\* bitwise exclusive or of two naturals
RECURSIVE BitXor(_, _)
BitXor(a, b) ==
    IF a = 0 /\ b = 0 THEN 0
    ELSE (IF a % 2 = b % 2 THEN 0 ELSE 1) + 2 * BitXor(a \div 2, b \div 2)

\* the mask Halton::seed(pixel, sampleIndex) draws: a binary fraction of
\* PcgBits / 2 bits, in steps of 1 / FloatUnit
MaskOf(pixel) == PcgNextFloat(PcgSeed(1337, PixelKey(pixel))).value
MaskStep == FloatUnit \div PcgOutRange

\* x with the leading bits of its binary expansion xor-ed with those of mask
XorScrambled(x, mask) ==
    BitXor(x \div MaskStep, mask \div MaskStep) * MaskStep + (x % MaskStep)

\* x shifted by mask, modulo 1
Rotated(x, mask) ==
    IF x + mask >= FloatUnit THEN x + mask - FloatUnit ELSE x + mask

\* the radical inverse of i in the given base
RadicalInverseOf(i, base) == RadicalLoop(i, FloatUnit \div base, base)

\* the Halton samplers that were last seeded with a pixel
PixelSeeded(id) == rng[id].kind = "halton" /\ Len(seeded[id]) = 2

\* C22: after Halton::seed(pixel, sampleIndex) the k-th call of next()
\* returns the radical inverse of sampleIndex in the k-th prime base,
\* xor-scrambled by the mask drawn from the PCG32 seeded with the pixel
C22_HaltonXorScrambled ==
    \A id \in SamplerIds :
        PixelSeeded(id) =>
            \A k \in 1..Len(drawn[id]) :
                drawn[id][k] =
                    XorScrambled(RadicalInverseOf(seeded[id][2], Primes[k]),
                                 MaskOf(seeded[id][1]))

(***************************************************************************)
(* Part III: SamplingIntegrator::execute over for_each_parallel and        *)
(* BlockSpiral.  Pixels and block corners are pairs <<x, y>>.              *)
(***************************************************************************)
MaxThreads == 2
MaxRes == 3
MaxSpp == 2
\* the block size Vector2i(64) of execute, scaled to the images of the model
BlockSize == 2

\* int division of C++ (towards zero) by a positive divisor
TruncDiv(n, d) == IF n >= 0 THEN n \div d ELSE -((-n) \div d)

Bounds2i(min, max) == [min |-> min, max |-> max]
isEmpty(b) == \E dim \in 1..2 : b.min[dim] >= b.max[dim]
\* TBounds::clip(point) of the image bounds Bounds2i(Vector2i(0), imageSize)
ClipPoint(imageSize, point) ==
    [dim \in 1..2 |-> StdMax(0, StdMin(point[dim], imageSize[dim]))]

\* BlockSpiral::iterator::curve
curve(rank, index) ==
    IF rank = 0 THEN <<0, 0>>
    ELSE The({ CASE i \div (2 * rank) = 0 -> <<(i % (2 * rank)) - rank, -rank>>
                 [] i \div (2 * rank) = 1 -> <<rank, (i % (2 * rank)) - rank>>
                 [] i \div (2 * rank) = 2 -> <<rank - (i % (2 * rank)), rank>>
                 [] i \div (2 * rank) = 3 -> <<-rank, rank - (i % (2 * rank))>>
                 [] OTHER -> <<0, 0>> :
               i \in {(index + 1) % (8 * rank)} })

\* an operator* that steps by one pixel instead of one block
BlockOverlapping(imageSize, rank, index) ==
    The({ Bounds2i(ClipPoint(imageSize, min),
                   ClipPoint(imageSize, [dim \in 1..2 |-> min[dim] + BlockSize])) :
          min \in {[dim \in 1..2 |-> TruncDiv(imageSize[dim] - BlockSize, 2)
                                     + curve(rank, index)[dim]]} })
\* BlockSpiral::iterator::operator*
Block(imageSize, rank, index) ==
    The({ Bounds2i(ClipPoint(imageSize, min),
                   ClipPoint(imageSize, [dim \in 1..2 |-> min[dim] + BlockSize])) :
          min \in {[dim \in 1..2 |-> TruncDiv(imageSize[dim] - BlockSize, 2)
                                     + BlockSize * curve(rank, index)[dim]]} })

SpiralIt(rank, index) == [m_rank |-> rank, m_index |-> index]
\* a begin() that starts with the first ring
SpiralBeginFirstRing == SpiralIt(1, 0)
\* BlockSpiral::begin and BlockSpiral::end
SpiralBegin == SpiralIt(0, 0)
SpiralEnd == SpiralIt(-1, 0)

\* the do-while loop of BlockSpiral::iterator::operator++
RECURSIVE SpiralLoop(_, _, _, _)
SpiralTest(imageSize, rank, index, changedRank) ==
    IF ~isEmpty(Block(imageSize, rank, index)) THEN SpiralIt(rank, index)
    ELSE SpiralLoop(imageSize, rank, index, changedRank)
SpiralLoop(imageSize, rank, index, changedRank) ==
    IF index + 1 >= 8 * rank
    THEN IF changedRank THEN SpiralIt(-1, 0)
         ELSE SpiralTest(imageSize, rank + 1, 0, TRUE)
    ELSE SpiralTest(imageSize, rank, index + 1, changedRank)

\* BlockSpiral::iterator::operator++
SpiralIncrement(imageSize, it) ==
    IF it.m_rank = -1 THEN it
    ELSE SpiralLoop(imageSize, it.m_rank, it.m_index, FALSE)

\* TBounds::begin, TBounds::end and TBounds::iterator::operator++ in 2-D
BoundsBegin(b) == b.min
BoundsEnd(b) == <<b.min[1], b.max[2]>>
BoundsIncrement(b, p) ==
    IF p[1] + 1 < b.max[1] THEN <<p[1] + 1, p[2]>> ELSE <<b.min[1], p[2] + 1>>

\* Camera::sample(pixel, rng): a random offset in the pixel from next2D,
\* normalised by the resolution to [-1, +1]; the weight is Color(1)
CameraSample(pixel, res, s) ==
    The({ [ray |-> [dim \in 1..2 |->
                      (2 * (pixel[dim] * FloatUnit + o.value[dim])) \div res[dim]
                      - FloatUnit],
           weight |-> 1, sampler |-> o.sampler] :
          o \in {SamplerNext2D(s)} })

\* Li(ray, rng) for a scene that covers the left half of the view: a ray that
\* misses returns the background of its direction and draws nothing, a ray
\* that hits draws one number to pick the light sample
Li(r, s) ==
    IF r[1] >= 0 THEN [value |-> (r[2] + FloatUnit) \div 2, sampler |-> s]
    ELSE The({ [value |-> (u.value + FloatUnit + r[1]) \div 2, sampler |-> u.sampler] :
               u \in {SamplerNext(s)} })

\* the sample loop of execute for one pixel: sum and the sampler after
\* `sample` samples
RECURSIVE SampleLoop(_, _, _, _)
SampleStep(prev, pixel, res, sample) ==
    The({ The({ [sum |-> prev.sum + c.weight * l.value, sampler |-> l.sampler] :
                l \in {Li(c.ray, c.sampler)} }) :
          c \in {CameraSample(pixel, res, SeedPixel(prev.sampler, pixel, sample))} })
SampleLoop(s, pixel, res, sample) ==
    IF sample = 0 THEN [sum |-> 0, sampler |-> s]
    ELSE The({ SampleStep(prev, pixel, res, sample - 1) :
               prev \in {SampleLoop(s, pixel, res, sample - 1)} })

\* "m_image->get(pixel) = norm * sum" with norm = 1.0f / samplesPerPixel
PixelColor(sum, spp) == ((FloatUnit \div spp) * sum) \div FloatUnit

Threads == 1..MaxThreads
NoBlock == Bounds2i(<<0, 0>>, <<0, 0>>)
Resolutions == { <<w, h>> : w \in 1..MaxRes, h \in 1..MaxRes }

\* the samplers an integrator may hold when execute starts: as constructed,
\* or used before
IntegratorSamplers ==
    LET made == { NewIndependent(seed, c) : seed \in Seeds, c \in 1..MaxSpp }
                \cup { NewHalton(c, m, 0) : c \in 1..MaxSpp, m \in IndeterminateFloat }
    IN  made \cup { SamplerNext(SeedIndex(s, 1)).sampler : s \in made }

PoolInit ==
    /\ mainPc = "idle"
    /\ m_sampler = NoSampler
    /\ resolution = <<0, 0>>
    /\ m_image = <<>>
    /\ numThreads = 0
    /\ m_threads = 0
    /\ joined = 0
    /\ m_lock = 0
    /\ first = SpiralEnd
    /\ threadPc = [t \in Threads |-> "none"]
    /\ obj = [t \in Threads |-> NoBlock]
    /\ pixelIt = [t \in Threads |-> <<0, 0>>]
    /\ sampler = [t \in Threads |-> NoSampler]
    /\ taken = <<>>
    /\ finished = 0
    /\ writes = {}

\* execute up to the call of for_each_parallel, and for_each_parallel up to
\* its thread loop: the image is set to black, hardware_concurrency() is read
Execute(s, res, n) ==
    /\ mainPc = "idle"
    /\ mainPc' = "pool"
    /\ m_sampler' = s
    /\ resolution' = res
    /\ m_image' = [i \in 1..(res[1] * res[2]) |-> 0]
    /\ numThreads' = n
    /\ first' = SpiralBegin
    /\ UNCHANGED <<m_threads, joined, m_lock, threadPc, obj, pixelIt, sampler,
                   taken, finished, writes, shapeVars, samplerVars, laterVars>>

\* m_threads.emplace_back(...): the next thread starts
Spawn ==
    /\ mainPc = "pool"
    /\ m_threads < numThreads
    /\ m_threads' = m_threads + 1
    /\ threadPc' = [threadPc EXCEPT ![m_threads + 1] = "lock"]
    /\ UNCHANGED <<mainPc, m_sampler, resolution, m_image, numThreads, joined,
                   m_lock, first, obj, pixelIt, sampler, taken, finished, writes,
                   shapeVars, samplerVars, laterVars>>

\* thread.join() returns for the next thread of m_threads
Join ==
    /\ mainPc = "pool"
    /\ m_threads = numThreads
    /\ joined < numThreads
    /\ threadPc[joined + 1] = "done"
    /\ joined' = joined + 1
    /\ UNCHANGED <<mainPc, m_sampler, resolution, m_image, numThreads, m_threads,
                   m_lock, first, threadPc, obj, pixelIt, sampler, taken, finished,
                   writes, shapeVars, samplerVars, laterVars>>

\* for_each_parallel returns; execute finishes and saves the image
Return ==
    /\ mainPc = "pool"
    /\ m_threads = numThreads
    /\ joined = numThreads
    /\ mainPc' = "returned"
    /\ UNCHANGED <<m_sampler, resolution, m_image, numThreads, m_threads, joined,
                   m_lock, first, threadPc, obj, pixelIt, sampler, taken, finished,
                   writes, shapeVars, samplerVars, laterVars>>

\* m_lock.lock()
Lock(t) ==
    /\ threadPc[t] = "lock"
    /\ m_lock = 0
    /\ m_lock' = t
    /\ threadPc' = [threadPc EXCEPT ![t] = "locked"]
    /\ UNCHANGED <<mainPc, m_sampler, resolution, m_image, numThreads, m_threads,
                   joined, first, obj, pixelIt, sampler, taken, finished, writes,
                   shapeVars, samplerVars, laterVars>>

\* a worker that leaves the loop without m_lock.unlock()
TakeKeepLock(t) ==
    /\ threadPc[t] = "locked"
    /\ IF first = SpiralEnd
       THEN /\ threadPc' = [threadPc EXCEPT ![t] = "done"]
            /\ UNCHANGED <<m_lock, first, obj, taken>>
       ELSE /\ m_lock' = 0
            /\ obj' = [obj EXCEPT ![t] = Block(resolution, first.m_rank, first.m_index)]
            /\ first' = SpiralIncrement(resolution, first)
            /\ taken' = Append(taken, [thread |-> t, it |-> first, block |-> obj'[t]])
            /\ threadPc' = [threadPc EXCEPT ![t] = "f"]
    /\ UNCHANGED <<mainPc, m_sampler, resolution, m_image, numThreads, m_threads,
                   joined, pixelIt, sampler, finished, writes, shapeVars, samplerVars, laterVars>>

\* under the lock: leave the loop if first = last, else take *first, ++first;
\* then m_lock.unlock()
Take(t) ==
    /\ threadPc[t] = "locked"
    /\ m_lock' = 0
    /\ IF first = SpiralEnd
       THEN /\ threadPc' = [threadPc EXCEPT ![t] = "done"]
            /\ UNCHANGED <<first, obj, taken>>
       ELSE /\ obj' = [obj EXCEPT ![t] = Block(resolution, first.m_rank, first.m_index)]
            /\ first' = SpiralIncrement(resolution, first)
            /\ taken' = Append(taken, [thread |-> t, it |-> first, block |-> obj'[t]])
            /\ threadPc' = [threadPc EXCEPT ![t] = "f"]
    /\ UNCHANGED <<mainPc, m_sampler, resolution, m_image, numThreads, m_threads,
                   joined, pixelIt, sampler, finished, writes, shapeVars, samplerVars, laterVars>>

\* f(obj) starts: the sampler is cloned and the pixel loop set up
BeginBlock(t) ==
    /\ threadPc[t] = "f"
    /\ sampler' = [sampler EXCEPT ![t] = Clone(m_sampler)]
    /\ pixelIt' = [pixelIt EXCEPT ![t] = BoundsBegin(obj[t])]
    /\ IF BoundsBegin(obj[t]) = BoundsEnd(obj[t])
       THEN threadPc' = [threadPc EXCEPT ![t] = "lock"] /\ finished' = finished + 1
       ELSE threadPc' = [threadPc EXCEPT ![t] = "pixels"] /\ UNCHANGED finished
    /\ UNCHANGED <<mainPc, m_sampler, resolution, m_image, numThreads, m_threads,
                   joined, m_lock, first, obj, taken, writes, shapeVars, samplerVars, laterVars>>

\* one turn of "for (auto pixel : block)": all samples of the pixel, the store
\* into the image, the step of the pixel iterator; after the last pixel f
\* returns
RenderPixel(t) ==
    /\ threadPc[t] = "pixels"
    /\ LET r == SampleLoop(sampler[t], pixelIt[t], resolution,
                           m_sampler.m_samplesPerPixel)
           index == pixelIt[t][2] * resolution[1] + pixelIt[t][1] + 1
       IN  /\ m_image' = [m_image EXCEPT
                            ![index] = PixelColor(r.sum, m_sampler.m_samplesPerPixel)]
           /\ sampler' = [sampler EXCEPT ![t] = r.sampler]
           /\ writes' = writes \cup {[index |-> index, pixel |-> pixelIt[t],
                                      thread |-> t, block |-> obj[t]]}
    /\ pixelIt' = [pixelIt EXCEPT ![t] = BoundsIncrement(obj[t], pixelIt[t])]
    /\ IF pixelIt'[t] = BoundsEnd(obj[t])
       THEN threadPc' = [threadPc EXCEPT ![t] = "lock"] /\ finished' = finished + 1
       ELSE UNCHANGED <<threadPc, finished>>
    /\ UNCHANGED <<mainPc, m_sampler, resolution, numThreads, m_threads, joined,
                   m_lock, first, obj, taken, shapeVars, samplerVars, laterVars>>

PoolNext ==
    \/ \E s \in IntegratorSamplers, res \in Resolutions, n \in 0..MaxThreads :
          Execute(s, res, n)
    \/ Spawn
    \/ Join
    \/ Return
    \/ \E t \in Threads : Lock(t)
    \/ \E t \in Threads : Take(t)
    \/ \E t \in Threads : BeginBlock(t)
    \/ \E t \in Threads : RenderPixel(t)

\* the elements of the range [begin, end) of BlockSpiral(res, BlockSize)
RECURSIVE SpiralRange(_, _)
SpiralRange(res, it) ==
    IF it = SpiralEnd THEN <<>>
    ELSE <<it>> \o SpiralRange(res, SpiralIncrement(res, it))

PixelsOf(b) == { <<x, y>> : x \in b.min[1]..(b.max[1] - 1), y \in b.min[2]..(b.max[2] - 1) }

\* C7: no element of the range is taken twice, and when for_each_parallel
\* has returned f was invoked on every element of the range and every
\* invocation has finished, whatever hardware_concurrency() returned
C7_EachOnce ==
    /\ \A i, j \in 1..Len(taken) : taken[i].it = taken[j].it => i = j
    /\ mainPc = "returned" =>
          /\ \A k \in 1..Len(SpiralRange(resolution, SpiralBegin)) :
                \E i \in 1..Len(taken) :
                    taken[i].it = SpiralRange(resolution, SpiralBegin)[k]
          /\ finished = Len(taken)
          /\ \A t \in Threads : threadPc[t] \in {"none", "done"}

\* C8: the blocks handed out are pairwise disjoint, every store goes to a
\* pixel of a block the storing thread took, and no pixel is stored by two
\* threads
C8_DisjointTiles ==
    /\ \A i, j \in 1..Len(taken) :
          i # j => PixelsOf(taken[i].block) \cap PixelsOf(taken[j].block) = {}
    /\ \A w \in writes :
          /\ w.pixel \in PixelsOf(w.block)
          /\ \E i \in 1..Len(taken) :
                taken[i].thread = w.thread /\ taken[i].block = w.block
    /\ \A v, w \in writes : v.index = w.index => v.thread = w.thread

\* two threads have stored pixels of different blocks of one image
C8_Witness ==
    /\ mainPc = "returned"
    /\ Len(taken) >= 3
    /\ \E v, w \in writes : v.thread # w.thread

\* the image a single sampler of the integrator's configuration gives when
\* each pixel is rendered on its own
RefSampler ==
    IF m_sampler.kind = "halton" THEN NewHalton(m_sampler.m_samplesPerPixel, 0, 0)
    ELSE NewIndependent(m_sampler.m_seed, m_sampler.m_samplesPerPixel)
RefImage ==
    [i \in 1..(resolution[1] * resolution[2]) |->
        PixelColor(SampleLoop(RefSampler,
                              <<(i - 1) % resolution[1], (i - 1) \div resolution[1]>>,
                              resolution, m_sampler.m_samplesPerPixel).sum,
                   m_sampler.m_samplesPerPixel)]

\* C9: with at least one worker the finished image is the image in which
\* every pixel is a function of its coordinates and the sample indices
\* alone, for every number of workers and every interleaving
C9_ImageDetermined ==
    (mainPc = "returned" /\ numThreads >= 1) => m_image = RefImage

\* two workers have rendered an image of several blocks with a sampler that
\* was used before, at more than one sample per pixel
C9_Witness ==
    /\ mainPc = "returned"
    /\ numThreads = 2
    /\ m_sampler # RefSampler
    /\ m_sampler.m_samplesPerPixel > 1
    /\ \E v, w \in writes : v.thread # w.thread /\ v.block # w.block

\* the scheduler runs every thread that can take a step; a std::mutex that
\* stays free is acquired by a thread that waits for it
PoolFairness ==
    /\ WF_vars(Spawn) /\ WF_vars(Join) /\ WF_vars(Return)
    /\ \A t \in Threads :
          /\ WF_vars(Lock(t)) /\ WF_vars(Take(t))
          /\ WF_vars(BeginBlock(t)) /\ WF_vars(RenderPixel(t))

Handles == 0..MaxThreads
Addresses == 0..MaxThreads
Null == -1

\* the lowest address that holds no object
FreeAddress(h) == CHOOSE n \in Addresses :
    h[n] = NoSampler /\ \A m \in Addresses : h[m] = NoSampler => n <= m

\* a clone() that hands out the source object itself
CloneShared(h, a) == [heap |-> h, address |-> a]
\* clone(): std::make_shared<Halton>(*this) / std::make_shared<Independent>(*this),
\* a new object that starts as a copy of the one at address a
CloneObject(h, a) ==
    [heap |-> [h EXCEPT ![FreeAddress(h)] = Clone(h[a])], address |-> FreeAddress(h)]

CloneInit ==
    /\ heap = [a \in Addresses |-> NoSampler]
    /\ ref = [h \in Handles |-> Null]
    /\ own = [h \in Handles |-> [object |-> NoSampler, draws |-> 0]]
    /\ users = [a \in Addresses |-> {}]

\* the scene loader stores the sampler of the integrator in m_sampler
SetSampler(s) ==
    /\ ref[0] = Null
    /\ heap' = [heap EXCEPT ![0] = s]
    /\ ref' = [ref EXCEPT ![0] = 0]
    /\ own' = [own EXCEPT ![0] = [object |-> s, draws |-> 0]]
    /\ UNCHANGED <<users, besidesClone>>

\* "auto sampler = m_sampler->clone()" at the start of a block
WorkerClone(t) ==
    /\ ref[0] # Null
    /\ ref[t] = Null
    /\ LET c == CloneObject(heap, ref[0])
       IN  /\ heap' = c.heap
           /\ ref' = [ref EXCEPT ![t] = c.address]
    /\ own' = [own EXCEPT ![t] = [object |-> heap[ref[0]], draws |-> 0]]
    /\ UNCHANGED <<users, besidesClone>>

\* "sampler->seed(pixel, sample)"
WorkerSeed(t, pixel, sample) ==
    /\ ref[t] # Null
    /\ heap' = [heap EXCEPT ![ref[t]] = SeedPixel(heap[ref[t]], pixel, sample)]
    /\ own' = [own EXCEPT ![t] = [object |-> SeedPixel(own[t].object, pixel, sample),
                                  draws |-> 0]]
    /\ users' = [users EXCEPT ![ref[t]] = users[ref[t]] \cup {t}]
    /\ UNCHANGED <<ref, besidesClone>>

\* a next() on *sampler inside Camera::sample or Li
WorkerDraw(t) ==
    /\ ref[t] # Null
    /\ own[t].draws < MaxDraws
    /\ heap[ref[t]].dimension < Len(Primes)
    /\ own[t].object.dimension < Len(Primes)
    /\ heap' = [heap EXCEPT ![ref[t]] = SamplerNext(heap[ref[t]]).sampler]
    /\ own' = [own EXCEPT ![t] = [object |-> SamplerNext(own[t].object).sampler,
                                  draws |-> own[t].draws + 1]]
    /\ users' = [users EXCEPT ![ref[t]] = users[ref[t]] \cup {t}]
    /\ UNCHANGED <<ref, besidesClone>>

\* the block ends: the local handle goes away, and with the last handle the
\* object
WorkerDone(t) ==
    /\ ref[t] # Null
    /\ ref' = [ref EXCEPT ![t] = Null]
    /\ own' = [own EXCEPT ![t] = [object |-> NoSampler, draws |-> 0]]
    /\ IF \E h \in Handles \ {t} : ref[h] = ref[t]
       THEN UNCHANGED <<heap, users>>
       ELSE /\ heap' = [heap EXCEPT ![ref[t]] = NoSampler]
            /\ users' = [users EXCEPT ![ref[t]] = {}]
    /\ UNCHANGED <<besidesClone>>

CloneNext ==
    \/ \E s \in IntegratorSamplers : SetSampler(s)
    \/ \E t \in Threads : WorkerClone(t)
    \/ \E t \in Threads, p \in SeedPixels, i \in SampleIndices : WorkerSeed(t, p, i)
    \/ \E t \in Threads : WorkerDraw(t)
    \/ \E t \in Threads : WorkerDone(t)

\* C11: the object behind every handle is what the calls made through that
\* handle alone leave of the object it started from (no seed or draw on a
\* clone changes the source or another clone), m_sampler is never seeded or
\* drawn from, and no object is seeded or drawn from by two workers
C11_CloneIndependent ==
    /\ \A h \in Handles : ref[h] # Null => heap[ref[h]] = own[h].object
    /\ ref[0] # Null => users[ref[0]] = {}
    /\ \A a \in Addresses : Cardinality(users[a]) <= 1

\* two workers hold clones of m_sampler, both have seeded and drawn
C11_Witness ==
    /\ \A t \in Threads : ref[t] # Null /\ users[ref[t]] = {t} /\ own[t].draws > 0
    /\ heap[ref[1]] # heap[ref[2]]
    /\ heap[ref[1]] # heap[ref[0]]

(***************************************************************************)
(* Part V: PathtracerIntegrator::Li and DirectIntegrator::Li.              *)
(*                                                                         *)
(* A scene is given by what it answers along one path: the outcome of the  *)
(* intersection at each path vertex (the last entry repeats for every      *)
(* later vertex), the light sample next-event estimation gets, and the     *)
(* background as a function of the ray direction.  Direction 0 is the      *)
(* direction of the primary ray, direction k the one sampled from the BSDF *)
(* at vertex k.  Colors have one channel; a Color is a whole number or     *)
(* NaN, and NaN times zero is NaN as in IEEE-754.                          *)
(***************************************************************************)
\* int at a width of four bits
IntMin == -8
IntMax == 7
MaxVertices == 2

\* Color::operator+ and Color::operator*
CAdd(a, b) == IF a = NaN \/ b = NaN THEN NaN ELSE a + b
CMul(a, b) == IF a = NaN \/ b = NaN THEN NaN ELSE a * b

\* a BsdfSample: its weight, and whether wi is a direction or Vector(0)
BsdfSampleOf(weight, wi) == [weight |-> weight, wi |-> wi]
\* BsdfSample::invalid
BsdfSampleInvalid == BsdfSampleOf(0, "zero")

\* what m_scene->intersect answers: a miss, or a surface with its emission
\* (0: the instance has no Emission, 1: it has one), whether it has a BSDF, the sample sampleBsdf draws there and the value of
\* evaluateBsdf for wi = Vector(0)
Miss == [hit |-> FALSE, emission |-> 0, bsdf |-> FALSE,
         sample |-> BsdfSampleInvalid, evalZero |-> 0]
Surface(emission, bsdf) ==
    [hit |-> TRUE, emission |-> emission, bsdf |-> bsdf,
     sample |-> IF bsdf THEN BsdfSampleOf(2, "unit") ELSE BsdfSampleInvalid,
     evalZero |-> 0]
\* a RoughDielectric whose sample is invalid (evaluate gives Color(0)), and a
\* RoughConductor, whose evaluate normalizes wi
InvalidSampleSurface ==
    [hit |-> TRUE, emission |-> 0, bsdf |-> TRUE, sample |-> BsdfSampleInvalid,
     evalZero |-> 0]
ConductorSurface ==
    [hit |-> TRUE, emission |-> 0, bsdf |-> TRUE, sample |-> BsdfSampleOf(2, "unit"),
     evalZero |-> NaN]
VertexKinds ==
    {Miss, InvalidSampleSurface, ConductorSurface}
    \cup { Surface(e, b) : e \in {0, 1}, b \in BOOLEAN }

\* the distance of the sampled light, and Epsilon at the scale of the shadow
\* rays of this part: 1 / EpsilonInverse, so that whole numbers lie between
\* distance * (1 - Epsilon) and distance
LightDistance == 4
EpsilonInverse == 2

NoLights == [hasLights |-> FALSE, canBeIntersected |-> FALSE, invalid |-> FALSE,
             shadowHit |-> FALSE, shadowT |-> 0, distance |-> 0, contribution |-> 0]
LightSample(canBeIntersected, shadowHit, shadowT) ==
    [hasLights |-> TRUE, canBeIntersected |-> canBeIntersected, invalid |-> FALSE,
     shadowHit |-> shadowHit, shadowT |-> shadowT, distance |-> LightDistance,
     contribution |-> 5]
\* a light that cannot be intersected and whose sampleDirect returns
\* DirectLightSample::invalid
InvalidLightSample ==
    [hasLights |-> TRUE, canBeIntersected |-> FALSE, invalid |-> TRUE,
     shadowHit |-> FALSE, shadowT |-> 0, distance |-> 0, contribution |-> 0]
LightKinds ==
    {NoLights, LightSample(TRUE, FALSE, 0), LightSample(FALSE, FALSE, 0),
     InvalidLightSample}
    \cup { LightSample(FALSE, TRUE, t) : t \in 1..LightDistance + 1 }

Scenes ==
    [vertices : UNION { [1..n -> VertexKinds] : n \in 1..MaxVertices },
     light : LightKinds,
     backgroundSlope : {0, 1}]

\* m_scene->intersect for the ray that leaves path vertex k - 1
VertexAt(scene, k) ==
    scene.vertices[IF k <= Len(scene.vertices) THEN k ELSE Len(scene.vertices)]
\* m_scene->evaluateBackground(direction).value; the direction NaN is the
\* one of Vector(0).normalized()
Background(scene, direction) ==
    IF direction = NaN THEN NaN ELSE 3 + scene.backgroundSlope * direction

\* light->sampleDirect(its.position, rng) with the value of evaluateBsdf for
\* its wi: from a position that is NaN the distance and the weight are NaN
DirectLightSampleAt(l, hit_its, positionNaN) ==
    IF l.invalid THEN [weight |-> 0, distance |-> 0, bsdfValue |-> hit_its.evalZero]
    ELSE IF positionNaN THEN [weight |-> NaN, distance |-> NaN, bsdfValue |-> NaN]
    ELSE [weight |-> l.contribution, distance |-> l.distance, bsdfValue |-> 1]

\* PathtracerIntegrator::sampleNextEventLight
PathSampleNextEventLight(l, hit_its, positionNaN) ==
    IF l.canBeIntersected THEN 0
    ELSE The({ IF l.shadowHit /\ Lt(l.shadowT, s.distance) THEN 0
               ELSE CMul(s.weight, s.bsdfValue) :
               s \in {DirectLightSampleAt(l, hit_its, positionNaN)} })

\* DirectIntegrator::sampleNextEventLight
DirectSampleNextEventLight(l, hit_its, positionNaN) ==
    IF l.canBeIntersected THEN 0
    ELSE The({ IF ~l.shadowHit \/ Lt(s.distance, l.shadowT)
               THEN CMul(s.weight, s.bsdfValue)
               ELSE 0 :
               s \in {DirectLightSampleAt(l, hit_its, positionNaN)} })

\* "depth - 1" on int: the difference, or at INT_MIN a signed overflow, for
\* which a build either wraps around or, computing with the true value,
\* finds bounces >= depth - 1 for every bounces
DepthMinusOne(d) == IF d > IntMin THEN {d - 1} ELSE {IntMax, IntMin}

\* what a call has done so far: the calls it made in their order, the color
\* it held when it drew its first invalid BSDF sample, and the next-event
\* terms it got for invalid light samples
NoColor == -1
NoCalls ==
    [intersections |-> 0, bsdfSamples |-> 0, lightSamples |-> 0, steps |-> <<>>,
     beforeInvalid |-> NoColor, invalidLightTerms |-> {}, lightTerms |-> {}]
Step(calls, what) == [calls EXCEPT !.steps = Append(calls.steps, what)]

PathReturn(color, calls) ==
    [color |-> color, intersections |-> calls.intersections,
     bsdfSamples |-> calls.bsdfSamples, lightSamples |-> calls.lightSamples,
     steps |-> Append(calls.steps, "return"), aborted |-> FALSE,
     beforeInvalid |-> calls.beforeInvalid,
     invalidLightTerms |-> calls.invalidLightTerms,
     lightTerms |-> calls.lightTerms]

\* Intersection::evaluateEmission: Color::black() without an Emission; with
\* one it calls Lambertian::evaluate, the only Emission there is, which is
\* NOT_IMPLEMENTED: it logs an error and calls abort()
EmissionAborts(hit_its) == hit_its.hit /\ hit_its.emission # 0
\* the call ends in abort(): nothing is returned, color is what was
\* accumulated up to then
PathAbort(color, calls) ==
    [PathReturn(color, calls) EXCEPT !.steps = Append(calls.steps, "abort"),
                                     !.aborted = TRUE]

\* next-event estimation gets a valid sample of a light that cannot be
\* intersected
SampledFromSurface(l) == l.hasLights /\ ~l.canBeIntersected /\ ~l.invalid

\* the next-event estimate of one path vertex: the color after it and the
\* calls with it
PathLight(scene, color, weight, calls, hit_its, nanRay) ==
    IF ~scene.light.hasLights THEN [color |-> color, calls |-> calls]
    ELSE The({ [color |-> CAdd(color, CMul(weight, term)),
                calls |-> [Step(calls, "light") EXCEPT
                              !.lightSamples = calls.lightSamples + 1,
                              !.invalidLightTerms =
                                  IF scene.light.invalid /\ ~scene.light.canBeIntersected
                                  THEN calls.invalidLightTerms \cup {term}
                                  ELSE calls.invalidLightTerms,
                              !.lightTerms =
                                  IF SampledFromSurface(scene.light) /\ ~nanRay
                                  THEN calls.lightTerms \cup {term}
                                  ELSE calls.lightTerms]] :
               term \in {PathSampleNextEventLight(scene.light, hit_its, nanRay)} })

\* the while (true) loop of PathtracerIntegrator::Li from the state at its
\* head; limit is the value of depth - 1, nanRay tells that the direction of
\* current_ray is NaN
RECURSIVE PathLoop(_, _, _, _, _, _, _)
PathSample(scene, limit, bounces, lit, weight, hit_its, nanRay) ==
    PathLoop(scene, limit, bounces + 1, lit.color,
             CMul(weight, hit_its.sample.weight),
             [Step(Step(lit.calls, "sample"), "weight") EXCEPT
                 !.bsdfSamples = lit.calls.bsdfSamples + 1,
                 !.beforeInvalid =
                     IF hit_its.sample.weight = 0 /\ lit.calls.beforeInvalid = NoColor
                     THEN lit.color ELSE lit.calls.beforeInvalid],
             nanRay \/ hit_its.sample.wi = "zero")
PathBounce(scene, limit, bounces, color, weight, calls, hit_its, nanRay) ==
    PathSample(scene, limit, bounces,
               PathLight(scene, color, weight, calls, hit_its, nanRay),
               weight, hit_its, nanRay)
PathVertex(scene, limit, bounces, color, weight, calls, hit_its, nanRay) ==
    IF ~hit_its.hit
    THEN PathReturn(CAdd(color, CMul(weight, Background(scene, 0))),
                    Step(calls, "background"))
    ELSE IF EmissionAborts(hit_its)
    THEN PathAbort(color, calls)
    ELSE IF ~hit_its.bsdf
    THEN PathReturn(CAdd(color, CMul(weight, hit_its.emission)), Step(calls, "emission"))
    ELSE IF bounces >= limit
    THEN PathReturn(CAdd(color, CMul(weight, hit_its.emission)), Step(calls, "emission"))
    ELSE PathBounce(scene, limit, bounces, CAdd(color, CMul(weight, hit_its.emission)),
                    weight, Step(calls, "emission"), hit_its, nanRay)
PathLoop(scene, limit, bounces, color, weight, calls, nanRay) ==
    PathVertex(scene, limit, bounces, color, weight,
               [Step(calls, "intersect") EXCEPT
                   !.intersections = calls.intersections + 1],
               VertexAt(scene, bounces + 1), nanRay)

\* PathtracerIntegrator::Li
PathtracerLi(scene, limit) == PathLoop(scene, limit, 0, 0, 1, NoCalls, FALSE)

\* DirectIntegrator::Li after the first hit on a surface with a BSDF: color
\* is the one before the BSDF sample, term the next-event term
DirectBounce(scene, color, term, first_its, second_its) ==
    [color |->
        IF ~second_its.hit
        THEN CAdd(color, CMul(first_its.sample.weight,
                              Background(scene, IF first_its.sample.wi = "zero"
                                                THEN NaN ELSE 1)))
        ELSE IF EmissionAborts(second_its) THEN color
        ELSE CAdd(color, CMul(first_its.sample.weight, second_its.emission)),
     aborted |-> EmissionAborts(second_its),
     beforeInvalid |-> IF first_its.sample.weight = 0 THEN color ELSE NoColor,
     invalidLightTerms |->
        IF scene.light.invalid /\ ~scene.light.canBeIntersected THEN {term} ELSE {},
     lightTerms |-> IF SampledFromSurface(scene.light) THEN {term} ELSE {}]

\* DirectIntegrator::Li
DirectLi(scene) ==
    The({ IF ~hit_its.hit
          THEN [color |-> Background(scene, 0), aborted |-> FALSE,
                beforeInvalid |-> NoColor,
                invalidLightTerms |-> {}, lightTerms |-> {}]
          ELSE IF EmissionAborts(hit_its)
          THEN [color |-> 0, aborted |-> TRUE, beforeInvalid |-> NoColor,
                invalidLightTerms |-> {}, lightTerms |-> {}]
          ELSE IF ~hit_its.bsdf
          THEN [color |-> hit_its.emission, aborted |-> FALSE,
                beforeInvalid |-> NoColor,
                invalidLightTerms |-> {}, lightTerms |-> {}]
          ELSE The({ DirectBounce(scene,
                         IF scene.light.hasLights
                         THEN CAdd(hit_its.emission, term) ELSE hit_its.emission,
                         term, hit_its, VertexAt(scene, 2)) :
                     term \in {DirectSampleNextEventLight(scene.light, hit_its, FALSE)} }) :
          hit_its \in {VertexAt(scene, 1)} })

NoScene == [vertices |-> <<>>]
NoResult == [color |-> -1, aborted |-> FALSE]

LiInit ==
    /\ liScene = NoScene
    /\ depth = 0
    /\ ptResult = NoResult
    /\ diResult = NoResult

\* the scene is loaded, the integrator reads its depth property
LoadScene(scene, d) ==
    /\ liScene = NoScene
    /\ liScene' = scene
    /\ depth' = d
    /\ UNCHANGED <<ptResult, diResult, besidesLi>>

\* a call of PathtracerIntegrator::Li
CallPathtracerLi(limit) ==
    /\ liScene # NoScene
    /\ ptResult = NoResult
    /\ limit \in DepthMinusOne(depth)
    /\ ptResult' = PathtracerLi(liScene, limit)
    /\ UNCHANGED <<liScene, depth, diResult, besidesLi>>

\* a call of DirectIntegrator::Li
CallDirectLi ==
    /\ liScene # NoScene
    /\ diResult = NoResult
    /\ diResult' = DirectLi(liScene)
    /\ UNCHANGED <<liScene, depth, ptResult, besidesLi>>

LiNext ==
    \/ \E scene \in Scenes, d \in IntMin..IntMax : LoadScene(scene, d)
    \/ \E limit \in IntMin..IntMax : CallPathtracerLi(limit)
    \/ CallDirectLi

MaxOf(a, b) == IF a >= b THEN a ELSE b

\* C13: a call of PathtracerIntegrator::Li that has returned made at most
\* max(depth, 1) path-vertex intersections and at most max(depth, 1) - 1
\* BSDF samples and next-event estimates, for every depth an int can hold
C13_BoundedPath ==
    ptResult # NoResult /\ ~ptResult.aborted =>
        /\ ptResult.intersections <= MaxOf(depth, 1)
        /\ ptResult.bsdfSamples <= MaxOf(depth, 1) - 1
        /\ ptResult.lightSamples <= MaxOf(depth, 1) - 1

\* C14: with depth = 2 PathtracerIntegrator::Li and DirectIntegrator::Li
\* return the same radiance for the same scene, primary ray and random
\* numbers
C14_PathEqualsDirect ==
    (depth = 2 /\ ptResult # NoResult /\ diResult # NoResult)
        => /\ ptResult.aborted = diResult.aborted
           /\ ~ptResult.aborted => ptResult.color = diResult.color

\* C21: in both integrators the next-event term of an invalid light sample
\* is zero, and a call that drew an invalid BSDF sample returns the radiance
\* it had accumulated before that sample
C21_InvalidContributesNothing ==
    /\ ptResult # NoResult =>
          /\ ptResult.invalidLightTerms \subseteq {0}
          /\ ptResult.beforeInvalid # NoColor /\ ~ptResult.aborted
             => ptResult.color = ptResult.beforeInvalid
    /\ diResult # NoResult =>
          /\ diResult.invalidLightTerms \subseteq {0}
          /\ diResult.beforeInvalid # NoColor /\ ~diResult.aborted
             => diResult.color = diResult.beforeInvalid

\* the bound Scene::intersect(ray, tMax, rng) gives the Intersection:
\* tMax * (1 - Epsilon)
ShadowTMax(tMax) == tMax - (tMax \div EpsilonInverse)

\* a surface is hit along the shadow ray within the shrunk distance
Occluded(l) == l.shadowHit /\ l.shadowT <= ShadowTMax(l.distance)

\* C23: in both integrators the sample of a light at distance d contributes
\* exactly when no surface is hit along the shadow ray at a distance of at
\* most d * (1 - Epsilon); a hit beyond that, also one at d itself, does not
\* occlude
C23_ShadowRayShrunk ==
    /\ ptResult # NoResult =>
          \A term \in ptResult.lightTerms : (term # 0) <=> ~Occluded(liScene.light)
    /\ diResult # NoResult =>
          \A term \in diResult.lightTerms : (term # 0) <=> ~Occluded(liScene.light)

\* the number of intersections among the first i steps of a call
IntersectionsUpTo(steps, i) ==
    Cardinality({ j \in 1..i : steps[j] = "intersect" })
\* the steps of a call from step i on begin with the sequence `expected`
StepsFrom(steps, i, expected) ==
    /\ Len(steps) >= i + Len(expected) - 1
    /\ \A j \in 1..Len(expected) : steps[i + j - 1] = expected[j]

\* C27: at every path vertex PathtracerIntegrator::Li adds weight * emission
\* first, then returns if the instance has no BSDF or the depth limit is
\* reached (bounces >= depth - 1), and otherwise adds the next-event
\* estimate, draws one BSDF sample, multiplies the weight by its weight and
\* goes on with the next intersection: emission is added at every vertex,
\* the last one included, and the last vertex takes no next-event estimate
\* and no BSDF sample
C27_VertexSteps ==
    ptResult # NoResult =>
       /\ ~ptResult.aborted
       /\ \A i \in 1..Len(ptResult.steps) :
             ptResult.steps[i] = "intersect" =>
                \E k \in {IntersectionsUpTo(ptResult.steps, i)} :
                \E v \in {VertexAt(liScene, k)} :
                   IF ~v.hit
                   THEN ptResult.steps = SubSeq(ptResult.steps, 1, i)
                                         \o <<"background", "return">>
                   ELSE IF ~v.bsdf \/ k - 1 >= depth - 1
                   THEN ptResult.steps = SubSeq(ptResult.steps, 1, i)
                                         \o <<"emission", "return">>
                   ELSE StepsFrom(ptResult.steps, i + 1,
                                  IF liScene.light.hasLights
                                  THEN <<"emission", "light", "sample", "weight",
                                         "intersect">>
                                  ELSE <<"emission", "sample", "weight", "intersect">>)

(***************************************************************************)
(* Part VI: the light of an Instance.                                      *)
(***************************************************************************)
MaxLights == 2
MaxSetLight == 4

nullptr == 0
\* the values of a Light *
LightPointers == {nullptr} \cup 1..MaxLights

\* Instance::Instance
InstanceInit ==
    /\ m_light = nullptr
    /\ m_visible = FALSE
    /\ setLightCalls = <<>>

\* Instance::setLight without the test of m_light
SetLightOverwrite(light) ==
    /\ Len(setLightCalls) < MaxSetLight
    /\ m_light' = light
    /\ setLightCalls' = Append(setLightCalls, [light |-> light, thrown |-> FALSE])
    /\ UNCHANGED <<m_visible, besidesInstance>>

\* Instance::setLight
SetLight(light) ==
    /\ Len(setLightCalls) < MaxSetLight
    /\ IF m_light # nullptr
       THEN /\ setLightCalls' = Append(setLightCalls, [light |-> light, thrown |-> TRUE])
            /\ UNCHANGED m_light
       ELSE /\ m_light' = light
            /\ setLightCalls' = Append(setLightCalls, [light |-> light, thrown |-> FALSE])
    /\ UNCHANGED <<m_visible, besidesInstance>>

\* Instance::markAsVisible
MarkAsVisible ==
    /\ ~m_visible
    /\ m_visible' = TRUE
    /\ UNCHANGED <<m_light, setLightCalls, besidesInstance>>

InstanceNext ==
    \/ \E light \in LightPointers : SetLight(light)
    \/ MarkAsVisible

\* the calls that assigned a light
Assigning ==
    { i \in 1..Len(setLightCalls) :
        ~setLightCalls[i].thrown /\ setLightCalls[i].light # nullptr }

\* C15: at most one setLight call assigns a light; every call after it
\* throws, and m_light stays the light that call assigned; before any such
\* call only calls with a null pointer have returned and m_light is null
C15_SetOnce ==
    /\ Cardinality(Assigning) <= 1
    /\ \A i \in Assigning :
          /\ m_light = setLightCalls[i].light
          /\ \A j \in 1..Len(setLightCalls) :
                /\ j > i => setLightCalls[j].thrown
                /\ j < i => ~setLightCalls[j].thrown /\ setLightCalls[j].light = nullptr
    /\ Assigning = {} =>
          /\ m_light = nullptr
          /\ \A j \in 1..Len(setLightCalls) :
                ~setLightCalls[j].thrown /\ setLightCalls[j].light = nullptr

C15_Witness ==
    /\ Len(setLightCalls) >= 3
    /\ setLightCalls[1] = [light |-> 1, thrown |-> FALSE]
    /\ setLightCalls[2] = [light |-> 2, thrown |-> TRUE]
    /\ setLightCalls[3] = [light |-> nullptr, thrown |-> TRUE]
    /\ m_light = 1

\* C15 as stated: setLight succeeds at most once per instance
C15_SucceedsAtMostOnce ==
    Cardinality({ i \in 1..Len(setLightCalls) : ~setLightCalls[i].thrown }) <= 1

(***************************************************************************)
(* Part VII: the shading frame an Instance reports.                        *)
(*                                                                         *)
(* A frame vector is kept as an integer direction and a flag telling       *)
(* whether it went through normalized(): [dir |-> d, unit |-> TRUE] is     *)
(* d / |d|, which for d = 0 is the NaN vector 0 / 0; [dir |-> d, unit |->  *)
(* FALSE] is d itself.  Every product below is followed by normalized() in *)
(* the code, so lengths never have to be computed.                         *)
(***************************************************************************)
Vec(d) == [dir |-> d, unit |-> FALSE]
\* TVector::normalized
Normalized(v) == [dir |-> v.dir, unit |-> TRUE]
\* a.cross(b).normalized()
CrossNormalized(a, b) == Normalized(Vec(Cross(a.dir, b.dir)))
Negated(v) == [v EXCEPT !.dir = VScale(-1, v.dir)]

\* the upper left 3x3 block of a Matrix4x4, as rows
MatVec(m, d) == <<Dot(m[1], d), Dot(m[2], d), Dot(m[3], d)>>
Determinant3(m) == Dot(m[1], Cross(m[2], m[3]))
\* Transform::apply(Vector).normalized()
ApplyNormalized(m, v) == Normalized(Vec(MatVec(m, v.dir)))

\* Frame(): three Vector()
ZeroFrame ==
    [tangent |-> Vec(<<0, 0, 0>>), bitangent |-> Vec(<<0, 0, 0>>),
     normal |-> Vec(<<0, 0, 0>>)]

\* Rectangle::populate (frame)
RectangleFrame(frame) ==
    [tangent |-> Vec(<<1, 0, 0>>), bitangent |-> Vec(<<0, 1, 0>>),
     normal |-> Vec(<<0, 0, 1>>)]

\* Sphere::populate (frame): every assignment to surf.frame is commented out
SphereFrame(frame) == frame

\* TriangleMesh::populate (frame) for a normal with direction n
MeshTangent(n) ==
    IF n[1] = 0 /\ n[2] = 0 /\ n[3] > 0 THEN Vec(<<1, 0, 0>>)
    ELSE CrossNormalized(Vec(n), Vec(<<0, 0, 1>>))
MeshFrame(n) ==
    [tangent |-> Normalized(MeshTangent(n)),
     bitangent |-> Normalized(CrossNormalized(Vec(n), MeshTangent(n))),
     normal |-> Normalized(Vec(n))]

\* the frame the wrapped shape leaves in its after a hit
ShapeFrame(shape, frame) ==
    CASE shape.kind = "rectangle" -> RectangleFrame(frame)
      [] shape.kind = "sphere"    -> SphereFrame(frame)
      [] shape.kind = "mesh"      -> MeshFrame(shape.normal)

\* Instance::transformFrame (frame, without a normal map)
transformFrame(m, m_flipNormal, frame) ==
    The({ The({ [tangent |-> t,
                 bitangent |-> IF m_flipNormal THEN Negated(b) ELSE b,
                 normal |-> CrossNormalized(t, b)] :
                t \in {ApplyNormalized(m, frame.tangent)} }) :
          b \in {ApplyNormalized(m, frame.bitangent)} })

\* Instance::intersect (frame) after the shape reported a hit
InstanceFrame(inst, frame) ==
    IF inst.m_transform = <<>> THEN ShapeFrame(inst.m_shape, frame)
    ELSE transformFrame(inst.m_transform, Determinant3(inst.m_transform) < 0,
                        ShapeFrame(inst.m_shape, frame))

MaxNormal == 1
MeshNormals ==
    { n \in [Axes -> -MaxNormal..MaxNormal] : n # <<0, 0, 0>> }
FrameShapes ==
    {[kind |-> "rectangle", normal |-> <<0, 0, 1>>],
     [kind |-> "sphere", normal |-> <<0, 0, 0>>]}
    \cup { [kind |-> "mesh", normal |-> n] : n \in MeshNormals }
\* no transform, translation, scalings, rotation by 90 degrees about z,
\* mirroring, shear
FrameTransforms ==
    {<<>>,
     <<<<1, 0, 0>>, <<0, 1, 0>>, <<0, 0, 1>>>>,
     <<<<2, 0, 0>>, <<0, 2, 0>>, <<0, 0, 2>>>>,
     <<<<2, 0, 0>>, <<0, 1, 0>>, <<0, 0, 1>>>>,
     <<<<0, -1, 0>>, <<1, 0, 0>>, <<0, 0, 1>>>>,
     <<<<-1, 0, 0>>, <<0, 1, 0>>, <<0, 0, 1>>>>,
     <<<<1, 1, 0>>, <<0, 1, 0>>, <<0, 0, 1>>>>}

NoInstance == [m_shape |-> [kind |-> "none"], m_transform |-> <<>>]

FrameInit ==
    /\ frInstance = NoInstance
    /\ frIts = [frame |-> ZeroFrame, hit |-> FALSE, calls |-> 0]

\* Instance::Instance
NewInstance(shape, m) ==
    /\ frInstance = NoInstance
    /\ frInstance' = [m_shape |-> shape, m_transform |-> m]
    /\ UNCHANGED <<frIts, besidesFrame>>

MaxFrameCalls == 2

\* Instance::intersect for a ray that hits the shape within its.t, or not;
\* the caller passes a new Intersection or the one of the call before
IntersectFrame(hit, fresh) ==
    /\ frInstance # NoInstance
    /\ frIts.calls < MaxFrameCalls
    /\ frIts' = The({ [frame |-> IF hit THEN InstanceFrame(frInstance, frame)
                                       ELSE frame,
                        hit |-> hit, calls |-> frIts.calls + 1] :
                      frame \in {IF fresh THEN ZeroFrame ELSE frIts.frame} })
    /\ UNCHANGED <<frInstance, besidesFrame>>

FrameNext ==
    \/ \E shape \in FrameShapes, m \in FrameTransforms : NewInstance(shape, m)
    \/ \E hit \in BOOLEAN, fresh \in BOOLEAN : IntersectFrame(hit, fresh)

UnitLength(v) == IF v.unit THEN v.dir # <<0, 0, 0>> ELSE Dot(v.dir, v.dir) = 1
Orthonormal(f) ==
    /\ UnitLength(f.tangent) /\ UnitLength(f.bitangent) /\ UnitLength(f.normal)
    /\ Dot(f.tangent.dir, f.bitangent.dir) = 0
    /\ Dot(f.tangent.dir, f.normal.dir) = 0
    /\ Dot(f.bitangent.dir, f.normal.dir) = 0
RightHanded(f) ==
    /\ Cross(Cross(f.tangent.dir, f.bitangent.dir), f.normal.dir) = <<0, 0, 0>>
    /\ Dot(Cross(f.tangent.dir, f.bitangent.dir), f.normal.dir) > 0

\* C16: after an intersect through an Instance returned true, its.frame is
\* orthonormal and right-handed (tangent x bitangent = normal)
C16_FrameOrthonormal ==
    frIts.hit => Orthonormal(frIts.frame) /\ RightHanded(frIts.frame)

(***************************************************************************)
(* Part VIII: Transform.                                                   *)
(*                                                                         *)
(* A Matrix4x4 is kept exactly, as an integer matrix n (four rows of four) *)
(* over a common denominator d.  Rotations are by multiples of a quarter   *)
(* turn about a coordinate axis and lookat directions are along the axes,  *)
(* so that cos, sin and normalized() have exact values.                    *)
(***************************************************************************)
Idx == 1..4
Identity4 == <<<<1, 0, 0, 0>>, <<0, 1, 0, 0>>, <<0, 0, 1, 0>>, <<0, 0, 0, 1>>>>
Mat4Mul(a, b) ==
    [i \in Idx |-> [j \in Idx |->
        a[i][1] * b[1][j] + a[i][2] * b[2][j] + a[i][3] * b[3][j] + a[i][4] * b[4][j]]]
Mat4Vec(a, v) ==
    [i \in Idx |-> a[i][1] * v[1] + a[i][2] * v[2] + a[i][3] * v[3] + a[i][4] * v[4]]
Transpose4(a) == [i \in Idx |-> [j \in Idx |-> a[j][i]]]

Rat(n, d) == [n |-> n, d |-> d]
\* Matrix4x4 operator*
RatMul(a, b) == Rat(Mat4Mul(a.n, b.n), a.d * b.d)

\* the cofactor expansion of invert(): the adjugate and the determinant
Skip(i, r) == IF r < i THEN r ELSE r + 1
Minor(m, i, j) ==
    Determinant3([r \in 1..3 |-> [c \in 1..3 |-> m[Skip(i, r)][Skip(j, c)]]])
Adjugate(m) ==
    [i \in Idx |-> [j \in Idx |->
        (IF (i + j) % 2 = 0 THEN 1 ELSE -1) * Minor(m, j, i)]]
Determinant4(m) ==
    The({ m[1][1] * inv[1][1] + m[1][2] * inv[2][1]
            + m[1][3] * inv[3][1] + m[1][4] * inv[4][1] : inv \in {Adjugate(m)} })

TranslationMatrix(v) ==
    <<<<1, 0, 0, v[1]>>, <<0, 1, 0, v[2]>>, <<0, 0, 1, v[3]>>, <<0, 0, 0, 1>>>>
ScalingMatrix(s) ==
    <<<<s[1], 0, 0, 0>>, <<0, s[2], 0, 0>>, <<0, 0, s[3], 0>>, <<0, 0, 0, 1>>>>
\* the matrix of 1 / scaling.x(), 1 / scaling.y(), 1 / scaling.z()
InverseScalingMatrix(s) ==
    Rat(<<<<s[2] * s[3], 0, 0, 0>>, <<0, s[1] * s[3], 0, 0>>,
          <<0, 0, s[1] * s[2], 0>>, <<0, 0, 0, s[1] * s[2] * s[3]>>>>,
        s[1] * s[2] * s[3])

Sign(x) == IF x > 0 THEN 1 ELSE IF x < 0 THEN -1 ELSE 0
\* normalized() of a vector along a coordinate axis
AxisNormalized(v) == <<Sign(v[1]), Sign(v[2]), Sign(v[3])>>

\* the rotation matrix of Transform::rotate; rows and columns count from 0
\* in the code
RotationEntry(u, cos, sin, row, column) ==
    (1 - cos) * u[row + 1] * u[column + 1]
    + (IF row = column THEN cos
       ELSE (IF row = (column + 1) % 3 THEN 1 ELSE -1) * sin
            * u[(((3 - row) + (3 - column)) % 3) + 1])
RotationMatrix(u, cos, sin) ==
    [i \in Idx |-> [j \in Idx |->
        IF i = 4 \/ j = 4 THEN (IF i = j THEN 1 ELSE 0)
        ELSE RotationEntry(u, cos, sin, i - 1, j - 1)]]

\* the two matrices of Transform::lookat
LookatMatrix(left, orthogonalUp, direction, origin) ==
    [i \in Idx |->
        IF i = 4 THEN <<0, 0, 0, 1>>
        ELSE <<left[i], orthogonalUp[i], direction[i], origin[i]>>]
LookatInverse(left, orthogonalUp, direction, origin) ==
    <<<<left[1], left[2], left[3], -origin[1]>>,
      <<orthogonalUp[1], orthogonalUp[2], orthogonalUp[3], -origin[2]>>,
      <<direction[1], direction[2], direction[3], -origin[3]>>,
      <<0, 0, 0, 1>>>>

\* Transform::Transform
TransformInit ==
    /\ m_transform = Rat(Identity4, 1)
    /\ m_inverse = Rat(Identity4, 1)
    /\ trOps = 0
    /\ trThrown = FALSE

MaxOps == 2
CanApply == trOps < MaxOps /\ ~trThrown

\* Transform::translate
translate(translation) ==
    /\ CanApply
    /\ m_transform' = RatMul(Rat(TranslationMatrix(translation), 1), m_transform)
    /\ m_inverse' = RatMul(m_inverse,
                           Rat(TranslationMatrix(VScale(-1, translation)), 1))
    /\ trOps' = trOps + 1
    /\ UNCHANGED <<trThrown, besidesTransform>>

\* Transform::scale
scale(scaling) ==
    /\ CanApply
    /\ IF scaling[1] * scaling[2] * scaling[3] = 0
       THEN /\ trThrown' = TRUE
            /\ UNCHANGED <<m_transform, m_inverse>>
       ELSE /\ m_transform' = RatMul(Rat(ScalingMatrix(scaling), 1), m_transform)
            /\ m_inverse' = RatMul(m_inverse, InverseScalingMatrix(scaling))
            /\ UNCHANGED trThrown
    /\ trOps' = trOps + 1
    /\ UNCHANGED besidesTransform

\* Transform::rotate
rotate(axis, cos, sin) ==
    /\ CanApply
    /\ \E rotation \in {RotationMatrix(AxisNormalized(axis), cos, sin)} :
          /\ m_transform' = RatMul(Rat(rotation, 1), m_transform)
          /\ m_inverse' = RatMul(m_inverse, Rat(Transpose4(rotation), 1))
    /\ trOps' = trOps + 1
    /\ UNCHANGED <<trThrown, besidesTransform>>

\* Transform::lookat
lookat(origin, target, up) ==
    /\ CanApply
    /\ \E direction \in {AxisNormalized(VSub(target, origin))} :
          IF Cross(up, direction) = <<0, 0, 0>>
          THEN /\ trThrown' = TRUE
               /\ UNCHANGED <<m_transform, m_inverse>>
          ELSE \E left \in {AxisNormalized(Cross(up, direction))} :
               \E orthogonalUp \in {AxisNormalized(Cross(direction, left))} :
                  /\ m_transform' =
                        RatMul(Rat(LookatMatrix(left, orthogonalUp, direction, origin), 1),
                               m_transform)
                  /\ m_inverse' =
                        RatMul(m_inverse,
                               Rat(LookatInverse(left, orthogonalUp, direction, origin), 1))
                  /\ UNCHANGED trThrown
    /\ trOps' = trOps + 1
    /\ UNCHANGED besidesTransform

\* Transform::matrix
matrix(value) ==
    /\ CanApply
    /\ m_transform' = RatMul(Rat(value, 1), m_transform)
    /\ \E det \in {Determinant4(value)} :
          IF det = 0
          THEN /\ trThrown' = TRUE
               /\ UNCHANGED m_inverse
          ELSE /\ m_inverse' = RatMul(m_inverse, Rat(Adjugate(value), det))
               /\ UNCHANGED trThrown
    /\ trOps' = trOps + 1
    /\ UNCHANGED besidesTransform

Translations == {<<1, 0, 0>>, <<0, 2, -1>>}
Scalings == {<<2, 2, 2>>, <<2, 1, 1>>, <<-1, 1, 1>>, <<0, 1, 1>>}
RotationAxes == {<<1, 0, 0>>, <<0, 2, 0>>, <<0, 0, -1>>}
\* cos and sin of a quarter turn, a half turn and three quarter turns
Turns == {<<0, 1>>, <<-1, 0>>, <<0, -1>>}
LookatOrigins == {<<0, 0, 0>>, <<1, 0, 0>>, <<0, 1, 2>>}
LookatDirections == {<<0, 0, 1>>, <<0, 0, -2>>, <<1, 0, 0>>}
LookatUps == {<<0, 1, 0>>, <<0, 0, 1>>}
Matrices ==
    {<<<<1, 1, 0, 0>>, <<0, 1, 0, 0>>, <<0, 0, 1, 0>>, <<0, 0, 0, 1>>>>,
     <<<<1, 0, 0, 0>>, <<0, 1, 0, 0>>, <<0, 0, 1, 0>>, <<0, 0, 0, 2>>>>,
     <<<<0, 0, 1, 1>>, <<2, 0, 0, 0>>, <<0, 1, 0, -1>>, <<0, 0, 0, 1>>>>,
     <<<<1, 0, 0, 0>>, <<0, 1, 0, 0>>, <<1, 1, 0, 0>>, <<0, 0, 0, 1>>>>}

TransformNext ==
    \/ \E translation \in Translations : translate(translation)
    \/ \E scaling \in Scalings : scale(scaling)
    \/ \E axis \in RotationAxes, turn \in Turns : rotate(axis, turn[1], turn[2])
    \/ \E origin \in LookatOrigins, d \in LookatDirections, up \in LookatUps :
          lookat(origin, VAdd(origin, d), up)
    \/ \E value \in Matrices : matrix(value)

\* Transform::inverse(Transform::apply(point)) in homogeneous coordinates:
\* the divisions by w and the denominators cancel in the composition
ThereAndBack(outward, back_again, point) ==
    Mat4Vec(back_again.n, Mat4Vec(outward.n, <<point[1], point[2], point[3], 1>>))
PointRoundTrip(outward, back_again, point) ==
    The({ /\ h[4] # 0
          /\ \A i \in Axes : h[i] = h[4] * point[i] :
          h \in {ThereAndBack(outward, back_again, point)} })
\* Transform::inverse(Transform::apply(vector)): the w component is dropped
\* after each product
VectorRoundTrip(outward, back_again, vector) ==
    The({ The({ \A i \in Axes : back[i] = outward.d * back_again.d * vector[i] :
                back \in {Mat4Vec(back_again.n, <<there[1], there[2], there[3], 0>>)} }) :
          there \in {Mat4Vec(outward.n, <<vector[1], vector[2], vector[3], 0>>)} })

TestVectors == {<<1, 0, 0>>, <<0, 1, 0>>, <<0, 0, 1>>}
TestPoints == TestVectors \cup {<<0, 0, 0>>, <<1, 1, 1>>}

\* C17: after operations that all succeeded, inverse(apply(p)) = p and
\* apply(inverse(p)) = p for points and for vectors
C17_InverseOfTransform ==
    ~trThrown =>
        /\ \A p \in TestPoints :
              /\ PointRoundTrip(m_transform, m_inverse, p)
              /\ PointRoundTrip(m_inverse, m_transform, p)
        /\ \A v \in TestVectors :
              /\ VectorRoundTrip(m_transform, m_inverse, v)
              /\ VectorRoundTrip(m_inverse, m_transform, v)

(***************************************************************************)
(* Part IX: Instance::intersect under a transform with scaling.            *)
(*                                                                         *)
(* Positions and distances are whole multiples of 1 / Grid, written as the *)
(* multiple; directions are along the coordinate axes, so that lengths are *)
(* exact; a length is a fraction num / den.                                *)
(***************************************************************************)
Grid == 16
Half == Grid \div 2
Quarter == Grid \div 4

\* Transform::apply(Point) and Transform::inverse(Point) for the matrix m:
\* the product with (point, 1) and the division by w
HomogeneousPoint(m, point) ==
    Mat4Vec(m.n, <<point[1], point[2], point[3], Grid>>)
TransformPoint(m, point) ==
    The({ [i \in Axes |-> (Grid * h[i]) \div h[4]] :
          h \in {HomogeneousPoint(m, point)} })
\* Transform::apply(Vector) and Transform::inverse(Vector), times m.d
TransformVectorNum(m, vector) ==
    The({ <<h[1], h[2], h[3]>> :
          h \in {Mat4Vec(m.n, <<vector[1], vector[2], vector[3], 0>>)} })

\* localRay.direction.length() for a direction along an axis
LocalRayScale(m, direction) ==
    [num |-> VLength(TransformVectorNum(m, direction)), den |-> Abs(m.d)]
\* localRay.direction.normalized()
LocalDirection(m, direction) ==
    AxisNormalized(VScale(Sign(m.d), TransformVectorNum(m, direction)))

\* its.t *= local_ray_scale and its.t /= local_ray_scale
TimesScale(t, s) == FDiv(FMul(t, s.num), s.den)
OverScale(t, s) == FDiv(FMul(t, s.den), s.num)

\* Instance::intersect with a transform; the record also tells the bound
\* handed to the shape and the local distance of the hit
ScaledIntersect(inst, world_ray, caller_its, id) ==
    The({ The({ The({
        IF r.hit
        THEN [hit |-> TRUE, handed |-> TimesScale(caller_its.t, local_ray_scale),
              localT |-> r.its.t,
              its |-> [r.its EXCEPT !.instance = id,
                           !.t = OverScale(r.its.t, local_ray_scale),
                           !.position = TransformPoint(inst.m_transform,
                                                       r.its.position)]]
        ELSE [hit |-> FALSE, handed |-> TimesScale(caller_its.t, local_ray_scale),
              localT |-> 0,
              its |-> [r.its EXCEPT !.t = caller_its.t]] :
        r \in {TriangleIntersect(inst.tri, localRay,
                   [caller_its EXCEPT !.t = TimesScale(caller_its.t, local_ray_scale)], id)} }) :
        local_ray_scale \in {LocalRayScale(inst.m_inverse, world_ray.direction)} }) :
        localRay \in {[origin |-> TransformPoint(inst.m_inverse, world_ray.origin),
                       direction |-> LocalDirection(inst.m_inverse, world_ray.direction)]} })

\* the transforms of the instances: one operation on a new Transform
TransformOf(forward, backward) == [m_transform |-> forward, m_inverse |-> backward]
ScaleOf(s) == TransformOf(Rat(ScalingMatrix(s), 1), InverseScalingMatrix(s))
TranslateOf(v) ==
    TransformOf(Rat(TranslationMatrix(v), 1), Rat(TranslationMatrix(VScale(-1, v)), 1))
RotateOf(axis, cos, sin) ==
    TransformOf(Rat(RotationMatrix(axis, cos, sin), 1),
                Rat(Transpose4(RotationMatrix(axis, cos, sin)), 1))
LookatOf(left, orthogonalUp, direction, origin) ==
    TransformOf(Rat(LookatMatrix(left, orthogonalUp, direction, origin), 1),
                Rat(LookatInverse(left, orthogonalUp, direction, origin), 1))
InstanceTransforms ==
    {ScaleOf(<<2, 2, 2>>), ScaleOf(<<4, 4, 4>>), ScaleOf(<<1, 1, 2>>),
     ScaleOf(<<-1, 1, 1>>), TranslateOf(<<1, 0, 0>>),
     RotateOf(<<1, 0, 0>>, -1, 0),
     LookatOf(<<-1, 0, 0>>, <<0, 1, 0>>, <<0, 0, -1>>, <<1, 0, 0>>)}

\* the triangle (0,0,0) - (1,0,0) - (0,1,0)
UnitTriangle == <<<<0, 0, 0>>, <<Grid, 0, 0>>, <<0, Grid, 0>>>>

WorldRays ==
    { [origin |-> <<x, x, z>>, direction |-> <<0, 0, 1>>] :
          x \in {Half, 3 * Grid}, z \in {-Grid, -2 * Grid} }
    \cup { [origin |-> <<x, Half, Grid>>, direction |-> <<0, 0, -1>>] :
            x \in {Half, -Half} }
    \cup { [origin |-> <<-Grid, Half, 0>>, direction |-> <<1, 0, 0>>] }
    \cup { [origin |-> <<x, y, -Grid>>, direction |-> <<0, 0, 1>>] :
            x \in {-(Grid + Half), Grid + Quarter, Quarter}, y \in {Quarter, -Quarter} }
Bounds18 == {Infinity, Half, Grid, 2 * Grid}

ScaleInit ==
    /\ scInstance = [tri |-> <<>>]
    /\ worldRay = NoRay
    /\ scIts = NewIntersection(Infinity)
    /\ scCall = [hit |-> FALSE, handed |-> 0, localT |-> 0, before |-> 0, calls |-> 0]

\* the scene is loaded and a query starts
NewScaledQuery(tr, r, tMax) ==
    /\ worldRay = NoRay
    /\ scInstance' = [m_transform |-> tr.m_transform, m_inverse |-> tr.m_inverse,
                      tri |-> UnitTriangle]
    /\ worldRay' = r
    /\ scIts' = NewIntersection(tMax)
    /\ UNCHANGED <<scCall, besidesScale>>

\* Instance::intersect(worldRay, its, rng)
IntersectScaled ==
    /\ worldRay # NoRay
    /\ scCall.calls = 0
    /\ \E r \in {ScaledIntersect(scInstance, worldRay, scIts, 1)} :
          /\ scIts' = r.its
          /\ scCall' = [hit |-> r.hit, handed |-> r.handed, localT |-> r.localT,
                        before |-> scIts.t, calls |-> 1]
    /\ UNCHANGED <<scInstance, worldRay, besidesScale>>

ScaleNext ==
    \/ \E tr \in InstanceTransforms, r \in WorldRays, tMax \in Bounds18 :
          NewScaledQuery(tr, r, tMax)
    \/ IntersectScaled

\* the length of M^-1 d, from the inverse of m_transform computed by invert()
TrueScale ==
    LocalRayScale(Rat(Adjugate(scInstance.m_transform.n),
                      Determinant4(scInstance.m_transform.n)
                          * scInstance.m_transform.d * scInstance.m_transform.d
                          * scInstance.m_transform.d),
                  worldRay.direction)

\* C18: the bound handed to the shape is its.t * s; a hit at local distance
\* t_local is reported as its.t = t_local / s, it lies within the bound the
\* caller gave, and the world ray at its.t is the reported position, M
\* applied to the local hit point; a miss leaves its.t as it was
C18_ScaledDistance ==
    scCall.calls = 1 =>
        /\ scCall.handed = TimesScale(scCall.before, TrueScale)
        /\ scCall.hit =>
              /\ scIts.t = OverScale(scCall.localT, TrueScale)
              /\ Lt(scIts.t, scCall.before)
              /\ RayAt(worldRay, scIts.t) = scIts.position
        /\ ~scCall.hit => scIts.t = scCall.before

\* C18, the example: the triangle under scale(2), the ray from
\* (0.5, 0.5, -1) along (0, 0, 1), is hit at t = 1
C18_Example ==
    /\ scCall.calls = 1
    /\ scInstance.m_transform = ScaleOf(<<2, 2, 2>>).m_transform
    /\ worldRay = [origin |-> <<Half, Half, -Grid>>, direction |-> <<0, 0, 1>>]
    /\ scCall.before = Infinity
    /\ scCall.hit /\ scIts.t = Grid /\ scIts.position = <<Half, Half, 0>>

(***************************************************************************)
(* Part X: Streaming, its socket and its updater thread.                   *)
(*                                                                         *)
(* A message has MsgLen bytes; the returns of ::send during one flush are  *)
(* an input of the action.  updateBlock holds Streaming::m_mutex from its  *)
(* first to its last statement and takes no other lock, so it is one step. *)
(***************************************************************************)
MsgLen == 2
NumChannels == 3
NumBlocks == 2
MaxRenderBlocks == 2
MaxAfterStop == 3
MaxStreamings == 2
SOCKET_ERROR == -1

\* the loop of Stream::performFlush: rets are the returns of ::send, i the
\* next one, sent the bytes that went out
RECURSIVE FlushLoop(_, _, _, _, _, _)
FlushLoop(total, m_index, socket, rets, i, sent) ==
    IF total < m_index /\ socket = "open"
    THEN IF i > Len(rets)
         THEN [socket |-> socket, sent |-> sent, used |-> i - 1, returned |-> FALSE]
         ELSE FlushLoop(total + rets[i], m_index,
                        IF rets[i] = SOCKET_ERROR THEN "none" ELSE socket,
                        rets, i + 1,
                        IF rets[i] > 0 THEN sent + rets[i] ELSE sent)
    ELSE [socket |-> socket, sent |-> sent, used |-> i - 1, returned |-> TRUE]

\* Stream::performFlush
performFlush(socket, rets) == FlushLoop(0, MsgLen, socket, rets, 1, 0)

\* the flushes of one call, one after the other; the record tells the socket
\* after them, whether the socket was lost and whether bytes went out after
\* it was lost, and whether rets are returns the calls can have got
RECURSIVE Flushes(_, _, _, _, _, _)
FlushStep(socket, retsSeq, k, wasLost, after, valid, r) ==
    Flushes(r.socket, retsSeq, k + 1,
            wasLost \/ (\E j \in 1..r.used : retsSeq[k][j] = SOCKET_ERROR),
            after \/ (wasLost /\ r.sent > 0),
            valid /\ r.returned /\ r.used = Len(retsSeq[k]))
Flushes(socket, retsSeq, k, wasLost, after, valid) ==
    IF k > Len(retsSeq)
    THEN [socket |-> socket, lost |-> wasLost, sentAfterLost |-> after, valid |-> valid]
    ELSE FlushStep(socket, retsSeq, k, wasLost, after, valid,
                   performFlush(socket, retsSeq[k]))

\* what ::send returns during one flush
SendReturns ==
    {<<>>, <<MsgLen>>, <<1, MsgLen - 1>>, <<0, MsgLen>>, <<SOCKET_ERROR>>,
     <<1, SOCKET_ERROR>>}

StreamInit ==
    /\ s_socket = "unset"
    /\ streamPc = "new"
    /\ renderBlocks = 0
    /\ updaterPc = "none"
    /\ updaterBlocks = 0
    /\ stop = FALSE
    /\ mutex = "free"
    /\ synced = FALSE
    /\ updatesAfterStop = 0
    /\ lost = FALSE
    /\ sentAfterLost = FALSE
    /\ streamings = 0

\* Stream::Stream with the socket kept although connect failed
StreamKeepSocket(socket, connected) ==
    IF socket = "open" THEN socket
    ELSE "open"

\* Stream::Stream: an open socket is used again; otherwise connect is tried
\* and the socket is reset if it fails
Stream(socket, connected) ==
    IF socket = "open" THEN socket
    ELSE IF connected THEN "open" ELSE "none"

\* Streaming::Streaming: Stream::Stream, then the two messages; s_socket is
\* static and outlives the Streaming before, the other members are new, and
\* lost and sentAfterLost tell of this Streaming
NewStreaming(connected, retsSeq) ==
    /\ streamPc \in {"new", "stopped"}
    /\ streamings < MaxStreamings
    /\ \E r \in {Flushes(Stream(s_socket, connected), retsSeq, 1,
                         s_socket # "open" /\ ~connected, FALSE, TRUE)} :
          /\ r.valid
          /\ s_socket' = r.socket
          /\ lost' = r.lost
          /\ sentAfterLost' = r.sentAfterLost
    /\ streamPc' = "running"
    /\ streamings' = streamings + 1
    /\ renderBlocks' = 0
    /\ updaterPc' = "none"
    /\ updaterBlocks' = 0
    /\ stop' = FALSE
    /\ synced' = FALSE
    /\ updatesAfterStop' = 0
    /\ UNCHANGED <<mutex, besidesStream>>

\* Streaming::startRegularUpdates: the thread starts at the head of its loop
StartRegularUpdates ==
    /\ streamPc = "running"
    /\ updaterPc = "none"
    /\ updaterPc' = "check"
    /\ UNCHANGED <<s_socket, streamPc, renderBlocks, updaterBlocks, stop, mutex,
                   synced, updatesAfterStop, lost, sentAfterLost, streamings, besidesStream>>

\* Streaming::updateBlock called by the render
RenderUpdateBlock(retsSeq) ==
    /\ streamPc = "running"
    /\ renderBlocks < MaxRenderBlocks
    /\ \E r \in {Flushes(s_socket, retsSeq, 1, lost, sentAfterLost, TRUE)} :
          /\ r.valid
          /\ s_socket' = r.socket
          /\ lost' = r.lost
          /\ sentAfterLost' = r.sentAfterLost
    /\ renderBlocks' = renderBlocks + 1
    /\ UNCHANGED <<streamPc, updaterPc, updaterBlocks, stop, mutex, synced,
                   updatesAfterStop, streamings, besidesStream>>

\* Streaming::stopRegularUpdates, Streaming::~Streaming: m_updater = nullptr
StopRegularUpdates ==
    /\ streamPc = "running"
    /\ streamPc' = IF updaterPc = "none" THEN "stopped" ELSE "lock"
    /\ UNCHANGED <<s_socket, renderBlocks, updaterPc, updaterBlocks, stop, mutex,
                   synced, updatesAfterStop, lost, sentAfterLost, streamings, besidesStream>>

\* ~UpdateThread: std::lock_guard lock(mutex)
StopLock ==
    /\ streamPc = "lock"
    /\ mutex = "free"
    /\ mutex' = "main"
    /\ streamPc' = "set"
    /\ UNCHANGED <<s_socket, renderBlocks, updaterPc, updaterBlocks, stop, synced,
                   updatesAfterStop, lost, sentAfterLost, streamings, besidesStream>>

\* ~UpdateThread: stop = true
StopSet ==
    /\ streamPc = "set"
    /\ stop' = TRUE
    /\ streamPc' = "unlock"
    /\ UNCHANGED <<s_socket, renderBlocks, updaterPc, updaterBlocks, mutex, synced,
                   updatesAfterStop, lost, sentAfterLost, streamings, besidesStream>>

\* ~UpdateThread: the end of the scope of the lock_guard
StopUnlock ==
    /\ streamPc = "unlock"
    /\ mutex' = "free"
    /\ streamPc' = "notify"
    /\ UNCHANGED <<s_socket, renderBlocks, updaterPc, updaterBlocks, stop, synced,
                   updatesAfterStop, lost, sentAfterLost, streamings, besidesStream>>

\* ~UpdateThread without cond.notify_one()
StopNotifyNobody ==
    /\ streamPc = "notify"
    /\ streamPc' = "join"
    /\ UNCHANGED <<s_socket, renderBlocks, updaterPc, updaterBlocks, stop, mutex,
                   synced, updatesAfterStop, lost, sentAfterLost, streamings, besidesStream>>

\* ~UpdateThread: cond.notify_one() wakes the thread if it waits
StopNotify ==
    /\ streamPc = "notify"
    /\ streamPc' = "join"
    /\ updaterPc' = IF updaterPc = "wait" THEN "woken" ELSE updaterPc
    /\ UNCHANGED <<s_socket, renderBlocks, updaterBlocks, stop, mutex, synced,
                   updatesAfterStop, lost, sentAfterLost, streamings, besidesStream>>

\* ~UpdateThread: thread.join()
StopJoin ==
    /\ streamPc = "join"
    /\ updaterPc = "exited"
    /\ streamPc' = "stopped"
    /\ UNCHANGED <<s_socket, renderBlocks, updaterPc, updaterBlocks, stop, mutex,
                   synced, updatesAfterStop, lost, sentAfterLost, streamings, besidesStream>>

\* the values the read of stop in "while (!stop)" can give: it is made
\* without the mutex, so until the thread has taken the mutex after the
\* write it races with the write and gives the old or the new value
StopReads == IF stop /\ ~synced THEN BOOLEAN ELSE {stop}

\* while (!stop)
UpdaterCheck(seen) ==
    /\ updaterPc = "check"
    /\ seen \in StopReads
    /\ updaterPc' = IF seen THEN "exited" ELSE "lock"
    /\ UNCHANGED <<s_socket, streamPc, renderBlocks, updaterBlocks, stop, mutex,
                   synced, updatesAfterStop, lost, sentAfterLost, streamings, besidesStream>>

\* std::unique_lock lock(mutex)
UpdaterLock ==
    /\ updaterPc = "lock"
    /\ mutex = "free"
    /\ mutex' = "updater"
    /\ synced' = stop
    /\ updaterPc' = "pred"
    /\ UNCHANGED <<s_socket, streamPc, renderBlocks, updaterBlocks, stop,
                   updatesAfterStop, lost, sentAfterLost, streamings, besidesStream>>

\* cond.wait_for: the predicate is tested with the mutex held; if it is
\* false the thread releases the mutex and waits
UpdaterPred ==
    /\ updaterPc = "pred"
    /\ IF stop
       THEN /\ updaterPc' = "unlock"
            /\ UNCHANGED mutex
       ELSE /\ updaterPc' = "wait"
            /\ mutex' = "free"
    /\ UNCHANGED <<s_socket, streamPc, renderBlocks, updaterBlocks, stop, synced,
                   updatesAfterStop, lost, sentAfterLost, streamings, besidesStream>>

\* cond.wait_for: the duration has passed
UpdaterTimeout ==
    /\ updaterPc = "wait"
    /\ updaterPc' = "timedout"
    /\ UNCHANGED <<s_socket, streamPc, renderBlocks, updaterBlocks, stop, mutex,
                   synced, updatesAfterStop, lost, sentAfterLost, streamings, besidesStream>>

\* cond.wait_for: a spurious wake-up
UpdaterSpuriousWake ==
    /\ updaterPc = "wait"
    /\ updaterPc' = "woken"
    /\ UNCHANGED <<s_socket, streamPc, renderBlocks, updaterBlocks, stop, mutex,
                   synced, updatesAfterStop, lost, sentAfterLost, streamings, besidesStream>>

\* cond.wait_for: the thread takes the mutex again; after a timeout wait_for
\* returns, after a wake-up it tests the predicate again
UpdaterReacquire ==
    /\ updaterPc \in {"woken", "timedout"}
    /\ mutex = "free"
    /\ mutex' = "updater"
    /\ synced' = stop
    /\ updaterPc' = IF updaterPc = "timedout" THEN "unlock" ELSE "pred"
    /\ UNCHANGED <<s_socket, streamPc, renderBlocks, updaterBlocks, stop,
                   updatesAfterStop, lost, sentAfterLost, streamings, besidesStream>>

\* the end of the scope of the unique_lock, then streaming.update() begins
UpdaterUnlock ==
    /\ updaterPc = "unlock"
    /\ mutex' = "free"
    /\ updaterPc' = "update"
    /\ updaterBlocks' = NumBlocks
    /\ updatesAfterStop' =
          IF stop /\ updatesAfterStop < MaxAfterStop THEN updatesAfterStop + 1
          ELSE updatesAfterStop
    /\ UNCHANGED <<s_socket, streamPc, renderBlocks, stop, synced, lost,
                   sentAfterLost, streamings, besidesStream>>

\* Streaming::update: updateBlock for the next block of the spiral
UpdaterUpdateBlock(retsSeq) ==
    /\ updaterPc = "update"
    /\ \E r \in {Flushes(s_socket, retsSeq, 1, lost, sentAfterLost, TRUE)} :
          /\ r.valid
          /\ s_socket' = r.socket
          /\ lost' = r.lost
          /\ sentAfterLost' = r.sentAfterLost
    /\ updaterBlocks' = updaterBlocks - 1
    /\ updaterPc' = IF updaterBlocks = 1 THEN "check" ELSE "update"
    /\ UNCHANGED <<streamPc, renderBlocks, stop, mutex, synced, updatesAfterStop,
                   streamings, besidesStream>>

FlushReturns(n) == [1..n -> SendReturns]

StreamNext ==
    \/ \E connected \in BOOLEAN, retsSeq \in FlushReturns(2) :
          NewStreaming(connected, retsSeq)
    \/ StartRegularUpdates
    \/ \E retsSeq \in FlushReturns(NumChannels) : RenderUpdateBlock(retsSeq)
    \/ StopRegularUpdates
    \/ StopLock
    \/ StopSet
    \/ StopUnlock
    \/ StopNotify
    \/ StopJoin
    \/ \E seen \in BOOLEAN : UpdaterCheck(seen)
    \/ UpdaterLock
    \/ UpdaterPred
    \/ UpdaterTimeout
    \/ UpdaterSpuriousWake
    \/ UpdaterReacquire
    \/ UpdaterUnlock
    \/ \E retsSeq \in FlushReturns(NumChannels) : UpdaterUpdateBlock(retsSeq)

\* a thread that can run does run and a send returns; the thread of
\* UpdateThread holds mutex only around wait_for, and lets go of it while it
\* waits and during update(), so the lock_guard of the destructor, blocked
\* on a mutex that is free again and again, gets it; the duration of wait_for
\* need not ever pass, and nothing makes the owner of the Streaming stop
StreamFairness ==
    /\ SF_vars(StopLock) /\ WF_vars(StopSet) /\ WF_vars(StopUnlock)
    /\ WF_vars(StopNotify) /\ WF_vars(StopJoin)
    /\ WF_vars(\E seen \in BOOLEAN : UpdaterCheck(seen))
    /\ WF_vars(UpdaterLock) /\ WF_vars(UpdaterPred) /\ WF_vars(UpdaterReacquire)
    /\ WF_vars(UpdaterUnlock)
    /\ WF_vars(\E retsSeq \in FlushReturns(NumChannels) : UpdaterUpdateBlock(retsSeq))

\* C19: once stopRegularUpdates runs with the updater thread started, the
\* thread begins at most one more update() after stop is set, leaves its
\* loop and is joined
C19_UpdaterJoined ==
    /\ [](updatesAfterStop <= 1)
    /\ (streamPc = "lock") ~>
          (streamPc = "stopped" /\ updaterPc = "exited" /\ mutex = "free")

C19_Witness ==
    /\ streamPc = "stopped" /\ updaterPc = "exited" /\ updatesAfterStop = 1

\* C20: once the connection has failed or a send has reported an error the
\* socket is gone and no flush sends a byte; the calls go on returning
C20_GracefulDegradation ==
    lost => s_socket = "none" /\ ~sentAfterLost

C20_Witness ==
    /\ lost /\ renderBlocks = MaxRenderBlocks /\ streamPc = "stopped"
    /\ updaterPc = "exited"

(***************************************************************************)
(* Part XI.  Sphere::intersect on its own: the root it reports.            *)
(*                                                                         *)
(* The rays run along an axis from a grid point, so the quadratic of the   *)
(* unit sphere has whole roots and the float arithmetic of the source is   *)
(* exact.  Every call starts from a fresh Intersection (its.t = Infinity). *)
(***************************************************************************)
MaxOrigin == 2

AxisDirections ==
    { <<1, 0, 0>>, <<-1, 0, 0>>, <<0, 1, 0>>, <<0, -1, 0>>, <<0, 0, 1>>, <<0, 0, -1>> }
SphereRays ==
    { [origin |-> <<x, y, z>>, direction |-> d] :
        x \in -MaxOrigin..MaxOrigin, y \in -MaxOrigin..MaxOrigin,
        z \in -MaxOrigin..MaxOrigin, d \in AxisDirections }

SphereInit ==
    /\ sphereRay = NoRay
    /\ sphereResult = Result(FALSE, NewIntersection(Infinity))

\* bool hit = sphere.intersect(ray, its, rng) with a fresh its
CallSphereIntersect(r) ==
    /\ sphereRay' = r
    /\ sphereResult' = SphereIntersect(r, NewIntersection(Infinity), 1)
    /\ UNCHANGED besidesSphere

SphereNext == \E r \in SphereRays : CallSphereIntersect(r)

\* the parameters t at which the ray meets the unit sphere
SphereRoots(r) ==
    { t \in -(MaxOrigin + 1)..(MaxOrigin + 1) : Dot(RayAt(r, t), RayAt(r, t)) = 1 }
\* the roots t >= Epsilon
RootsFromEpsilon(r) == { t \in SphereRoots(r) : ~LtEpsilon(t) }
SmallestOf(S) == CHOOSE t \in S : \A u \in S : t <= u

\* C24: Sphere::intersect reports the smallest root t >= Epsilon of the
\* quadratic: it hits exactly when such a root exists and then sets its.t to
\* the smallest one, also when the nearer root lies in [0, Epsilon) and the
\* farther root is at least Epsilon.
C24_SmallestRootFromEpsilon ==
    sphereRay # NoRay =>
        /\ sphereResult.hit <=> RootsFromEpsilon(sphereRay) # {}
        /\ sphereResult.hit => sphereResult.its.t = SmallestOf(RootsFromEpsilon(sphereRay))

(***************************************************************************)
(* Part XII.  BlockSpiral for any image size and block size: the blocks a  *)
(* loop from begin() to end() obtains, in their order.                     *)
(***************************************************************************)
MaxImage == 5
MaxBlock == 3

\* BlockSpiral(imageSize, blockSize)
BlockSpiral(imageSize, blockSize) == [imageSize |-> imageSize, blockSize |-> blockSize]

\* the block of the tile `cell` of the grid that operator* lays over the image
BlockOfCell(queue, cell) ==
    The({ Bounds2i(ClipPoint(queue.imageSize, min),
                   ClipPoint(queue.imageSize,
                             [dim \in 1..2 |-> min[dim] + queue.blockSize[dim]])) :
          min \in {[dim \in 1..2 |->
                      TruncDiv(queue.imageSize[dim] - queue.blockSize[dim], 2)
                      + queue.blockSize[dim] * cell[dim]]} })

\* BlockSpiral::iterator::operator*
Deref(queue, it) ==
    BlockOfCell(queue, curve(it.m_rank, it.m_index))

\* the do-while loop of BlockSpiral::iterator::operator++
RECURSIVE IncrementLoop(_, _, _, _)
IncrementTest(queue, rank, index, changedRank) ==
    IF ~isEmpty(Deref(queue, SpiralIt(rank, index))) THEN SpiralIt(rank, index)
    ELSE IncrementLoop(queue, rank, index, changedRank)
IncrementLoop(queue, rank, index, changedRank) ==
    IF index + 1 >= 8 * rank
    THEN IF changedRank THEN SpiralIt(-1, 0)
         ELSE IncrementTest(queue, rank + 1, 0, TRUE)
    ELSE IncrementTest(queue, rank, index + 1, changedRank)

\* an operator++ that stops at the end of the ring it started in
IncrementOneRing(queue, it) ==
    IF it.m_rank = -1 THEN it
    ELSE IncrementLoop(queue, it.m_rank, it.m_index, it.m_rank > 0)
\* BlockSpiral::iterator::operator++
Increment(queue, it) ==
    IF it.m_rank = -1 THEN it
    ELSE IncrementLoop(queue, it.m_rank, it.m_index, FALSE)

ImageSizes == { <<w, h>> : w \in 0..MaxImage, h \in 0..MaxImage }
BlockSizes == { <<b, b>> : b \in 1..MaxBlock }

SpiralInit ==
    /\ spiralQueue = BlockSpiral(<<0, 0>>, <<1, 1>>)
    /\ spiralIt = SpiralEnd
    /\ yielded = <<>>

\* BlockSpiral(imageSize, blockSize) and "first = begin()"
NewBlockSpiral(imageSize, blockSize) ==
    /\ spiralIt = SpiralEnd
    /\ spiralQueue' = BlockSpiral(imageSize, blockSize)
    /\ spiralIt' = SpiralBegin
    /\ yielded' = <<>>
    /\ UNCHANGED besidesSpiral

\* "auto obj = *first; ++first;" while first != end()
TakeBlock ==
    /\ spiralIt # SpiralEnd
    /\ yielded' = Append(yielded, [it |-> spiralIt, block |-> Deref(spiralQueue, spiralIt)])
    /\ spiralIt' = Increment(spiralQueue, spiralIt)
    /\ UNCHANGED <<spiralQueue, besidesSpiral>>

SpiralNext ==
    \/ \E imageSize \in ImageSizes, blockSize \in BlockSizes :
          NewBlockSpiral(imageSize, blockSize)
    \/ TakeBlock

\* the Chebyshev distance of a tile from the centre tile, counted in tiles
RingOf(cell) == StdMax(Abs(cell[1]), Abs(cell[2]))
Cells == { <<i, j>> : i \in -MaxImage..MaxImage, j \in -MaxImage..MaxImage }
CellOf(y) == curve(y.it.m_rank, y.it.m_index)
\* the real point imageSize / 2 lies in the closed block
ContainsCentre(queue, b) ==
    \A dim \in 1..2 : 2 * b.min[dim] <= queue.imageSize[dim]
                      /\ queue.imageSize[dim] <= 2 * b.max[dim]

\* C25: the first tile BlockSpiral yields is the tile that contains the image
\* centre, and the tiles follow in non-decreasing ring rank (Chebyshev
\* distance in tiles from the centre tile): when a tile of some ring is
\* yielded, every non-empty tile of every smaller ring has been yielded before.
C25_CentreOutward ==
    /\ yielded # <<>> =>
          /\ CellOf(yielded[1]) = <<0, 0>>
          /\ ContainsCentre(spiralQueue, yielded[1].block)
    /\ \A i \in 1..Len(yielded) : \A j \in i..Len(yielded) :
          RingOf(CellOf(yielded[i])) <= RingOf(CellOf(yielded[j]))
    /\ \A j \in 1..Len(yielded) : \A cell \in Cells :
          /\ RingOf(cell) < RingOf(CellOf(yielded[j]))
          /\ ~isEmpty(BlockOfCell(spiralQueue, cell))
          => \E i \in 1..(j - 1) : CellOf(yielded[i]) = cell

\* a loop has gone through three rings of an image that is not square and
\* has skipped empty tiles on its way
C25_Witness ==
    /\ spiralIt = SpiralEnd
    /\ spiralQueue.imageSize[1] # spiralQueue.imageSize[2]
    /\ Len(yielded) >= 3
    /\ RingOf(CellOf(yielded[Len(yielded)])) = 2
    /\ Len(yielded) < 25

ImagePixels(queue) ==
    { <<x, y>> : x \in 0..(queue.imageSize[1] - 1), y \in 0..(queue.imageSize[2] - 1) }

MaxAdders == 2
MaxDelta == 2

Channels == 1..NumChannels
Adders == 1..MaxAdders

\* e with 2^e <= f < 2^(e+1), for f >= 1
ExponentOf(f) == CHOOSE e \in 0..f : 2^e <= f /\ f < 2^(e + 1)

\* the float nearest to the whole number x >= 0 (ties to even)
FloatRound(x) ==
    IF x < 8 THEN x
    ELSE The({ The({ IF x = lo THEN lo
                     ELSE IF 2 * (x - lo) < ulp THEN lo
                     ELSE IF 2 * (x - lo) > ulp THEN lo + ulp
                     ELSE IF (lo \div ulp) % 2 = 0 THEN lo ELSE lo + ulp :
                     lo \in {(x \div ulp) * ulp} }) :
               ulp \in {2^(ExponentOf(x) - 2)} })

\* oldVal.f + delta
FloatAdd(a, b) == IF a = NaN \/ b = NaN THEN NaN ELSE FloatRound(a + b)

FloatValues ==
    {NaN} \cup { x \in 0..(8 + 4 * MaxAdders * MaxDelta) : FloatRound(x) = x }

\* union bits { float f; int32_t i; }: .i of a float written to .f
FloatBits(f) ==
    IF f = 0 THEN 0
    ELSE IF f = NaN THEN 4 * 15 + 2
    ELSE The({ 4 * (e + 1) + ((4 * (f - 2^e)) \div 2^e) : e \in {ExponentOf(f)} })
\* the float that an int32_t stored over it denotes
BitsFloat(i) == CHOOSE f \in FloatValues : FloatBits(f) = i

\* an exchange that does not compare
atomicExchange(v, newValue, oldValue) ==
    [swapped |-> TRUE, v |-> newValue]
\* atomicCompareAndExchange(v, newValue, oldValue): *v afterwards and the
\* value returned
atomicCompareAndExchange(v, newValue, oldValue) ==
    [swapped |-> v = oldValue, v |-> IF v = oldValue THEN newValue ELSE v]

Idle == [pc |-> "idle", kind |-> "none", channel |-> 0,
         delta |-> [c \in Channels |-> 0], oldVal |-> 0, newVal |-> 0]
DefaultColor == [c \in Channels |-> 0]
InitialColors == [Channels -> {0, 8, NaN}]
DeltaColors == [Channels -> 1..MaxDelta]

AtomInit ==
    /\ atomDst = DefaultColor
    /\ atomInitial = DefaultColor
    /\ adder = [t \in Adders |-> Idle]
    /\ applied = [c \in Channels |-> <<>>]
    /\ retries = 0

\* the Color the calls add to, before any of them
NewColor(color) ==
    /\ \A t \in Adders : adder[t].pc = "idle"
    /\ atomDst = DefaultColor
    /\ color # DefaultColor
    /\ atomDst' = color
    /\ atomInitial' = color
    /\ UNCHANGED <<adder, applied, retries, besidesAtom>>

\* thread t calls atomicAdd(dst[c], d)
CallAtomicAddFloat(t, c, d) ==
    /\ adder[t].pc = "idle"
    /\ adder' = [adder EXCEPT ![t] = [Idle EXCEPT !.pc = "read", !.kind = "float",
                                                  !.channel = c, !.delta[c] = d]]
    /\ UNCHANGED <<atomDst, atomInitial, applied, retries, besidesAtom>>

\* thread t calls atomicAdd(dst, delta) on the Color: channel 0 comes first
CallAtomicAddColor(t, delta) ==
    /\ adder[t].pc = "idle"
    /\ adder' = [adder EXCEPT ![t] = [Idle EXCEPT !.pc = "read", !.kind = "Color",
                                                  !.channel = 1, !.delta = delta]]
    /\ UNCHANGED <<atomDst, atomInitial, applied, retries, besidesAtom>>

\* "oldVal.f = dst; newVal.f = oldVal.f + delta;"
AtomicRead(t) ==
    /\ adder[t].pc = "read"
    /\ adder' = [adder EXCEPT ![t].pc = "cas",
                              ![t].oldVal = atomDst[adder[t].channel],
                              ![t].newVal = FloatAdd(atomDst[adder[t].channel],
                                                     adder[t].delta[adder[t].channel])]
    /\ UNCHANGED <<atomDst, atomInitial, applied, retries, besidesAtom>>

\* "while (!atomicCompareAndExchange(&dst, newVal.i, oldVal.i))": the loop
\* goes on after a failed exchange; after a successful one atomicAdd(float)
\* returns, and atomicAdd(Color) goes to its next channel
AtomicExchange(t) ==
    /\ adder[t].pc = "cas"
    /\ \E c \in {adder[t].channel} :
       \E r \in {atomicCompareAndExchange(FloatBits(atomDst[c]),
                                          FloatBits(adder[t].newVal),
                                          FloatBits(adder[t].oldVal))} :
          /\ atomDst' = [atomDst EXCEPT ![c] = BitsFloat(r.v)]
          /\ IF r.swapped
             THEN /\ applied' = [applied EXCEPT
                                   ![c] = Append(@, [thread |-> t, delta |-> adder[t].delta[c]])]
                  /\ retries' = retries
                  /\ adder' = IF adder[t].kind = "Color" /\ c < NumChannels
                              THEN [adder EXCEPT ![t].pc = "read", ![t].channel = c + 1]
                              ELSE [adder EXCEPT ![t].pc = "done"]
             ELSE /\ applied' = applied
                  /\ retries' = retries + 1
                  /\ adder' = [adder EXCEPT ![t].pc = "read"]
    /\ UNCHANGED <<atomInitial, besidesAtom>>

AtomNext ==
    \/ \E color \in InitialColors : NewColor(color)
    \/ \E t \in Adders, c \in Channels, d \in 1..MaxDelta : CallAtomicAddFloat(t, c, d)
    \/ \E t \in Adders, delta \in DeltaColors : CallAtomicAddColor(t, delta)
    \/ \E t \in Adders : AtomicRead(t)
    \/ \E t \in Adders : AtomicExchange(t)

\* the calls that add to channel c, and those of them that are through with it
AddsTo(t, c) ==
    \/ adder[t].kind = "Color"
    \/ adder[t].kind = "float" /\ adder[t].channel = c
Through(t, c) ==
    /\ AddsTo(t, c)
    /\ adder[t].pc = "done" \/ adder[t].channel > c
AllReturned == \A t \in Adders : adder[t].pc \in {"idle", "done"}

\* initial (+) the deltas of a sequence of exchanges, added as floats in order
RECURSIVE FoldAdd(_, _)
FoldAdd(value, exchanges) ==
    IF exchanges = <<>> THEN value
    ELSE FoldAdd(FloatAdd(value, Head(exchanges).delta), Tail(exchanges))
\* the exact sum of the deltas a set of calls adds to channel c
RECURSIVE DeltaSum(_, _)
DeltaSum(T, c) ==
    IF T = {} THEN 0
    ELSE The({ adder[t].delta[c] + DeltaSum(T \ {t}, c) : t \in {CHOOSE u \in T : TRUE} })

\* C26: concurrent atomicAdd calls on one float, and on one Color channel
\* by channel, lose no update: every exchange that succeeded added the delta
\* of one call to the value dst held at that moment, no call was applied
\* twice, and when all calls have returned dst holds the initial value plus
\* the delta of every call (the float sum in the order of the exchanges,
\* which is the exact sum where that needs no rounding).
C26_NoLostUpdate ==
    \A c \in Channels :
       /\ atomDst[c] = FoldAdd(atomInitial[c], applied[c])
       /\ \A i, j \in 1..Len(applied[c]) :
             applied[c][i].thread = applied[c][j].thread => i = j
       /\ \A i \in 1..Len(applied[c]) :
             /\ Through(applied[c][i].thread, c)
             /\ applied[c][i].delta = adder[applied[c][i].thread].delta[c]
       /\ { applied[c][i].thread : i \in 1..Len(applied[c]) }
            = { t \in Adders : Through(t, c) }
       /\ AllReturned =>
             /\ \A t \in Adders : AddsTo(t, c) => Through(t, c)
             /\ atomInitial[c] # NaN
                /\ atomInitial[c] + DeltaSum({ t \in Adders : AddsTo(t, c) }, c) < 8
                => atomDst[c] = atomInitial[c]
                                + DeltaSum({ t \in Adders : AddsTo(t, c) }, c)

\* all calls have returned, every thread has added to the first channel, and
\* an exchange failed on the way
C26_Witness ==
    /\ AllReturned
    /\ \A t \in Adders : adder[t].pc = "done" /\ AddsTo(t, 1)
    /\ retries > 0
    /\ atomDst[1] = atomInitial[1] + DeltaSum(Adders, 1)

(***************************************************************************)
(* Specifications: each part runs from the common initial state.           *)
(***************************************************************************)
Init == ShapeInit /\ SamplerInit /\ PoolInit /\ CloneInit /\ LiInit /\ InstanceInit /\ FrameInit /\ TransformInit /\ ScaleInit /\ StreamInit /\ SphereInit /\ SpiralInit /\ AtomInit

Spec == Init /\ [][ShapeNext]_vars
SpecSamplers == Init /\ [][SamplersStep]_vars
SpecPool == Init /\ [][PoolNext]_vars
SpecPoolFair == Init /\ [][PoolNext]_vars /\ PoolFairness
SpecClone == Init /\ [][CloneNext]_vars
SpecLi == Init /\ [][LiNext]_vars
SpecInstance == Init /\ [][InstanceNext]_vars
SpecFrame == Init /\ [][FrameNext]_vars
SpecTransform == Init /\ [][TransformNext]_vars
SpecScale == Init /\ [][ScaleNext]_vars
SpecStream == Init /\ [][StreamNext]_vars
SpecStreamFair == Init /\ [][StreamNext]_vars /\ StreamFairness
SpecSphere == Init /\ [][SphereNext]_vars
SpecSpiral == Init /\ [][SpiralNext]_vars
SpecAtom == Init /\ [][AtomNext]_vars

=============================================================================
